---- MODULE Spec2Model ----
(***************************************************************************)
(* A model of the bounded blocking queue (src/src/bqueue.c) and of the     *)
(* stop latch and thread structure of the capture pipeline                 *)
(* (src/src/main.c).                                                       *)
(*                                                                         *)
(* Every read and write of a queue's fields happens between                *)
(* pthread_mutex_lock and the matching pthread_mutex_unlock or             *)
(* pthread_cond_wait, so one critical section is one atomic action.  A     *)
(* thread that calls a queue operation is first "enter" (about to lock),   *)
(* may become "wait" (parked inside pthread_cond_wait, a member of the     *)
(* condition variable's waiter set), becomes "woken" when a signal or a    *)
(* broadcast (or a spurious wake-up) takes it out of the set and it has to *)
(* re-acquire the mutex and re-evaluate its loop condition, and is "ret"   *)
(* once the operation has returned.                                        *)
(***************************************************************************)
EXTENDS Integers, Sequences, FiniteSets, TLC

VARIABLES
    queues,     \* queue id -> BQueue record (fields of the struct + condvar waiter sets)
    call,       \* thread -> the queue operation it is inside, with its result
    pc,         \* thread -> position in its thread function
    g_stop,     \* the atomic stop flag
    nextItem,   \* next fresh item handle to allocate
    accepted,   \* history: queue id -> items accepted by push/try_push, in order
    delivered,  \* history: queue id -> items returned by successful pops, in order
    poppedAtClose, \* history: queue id -> Len(delivered) when closed first became 1, or -1
    rs,         \* thread -> the bq_close its request_stop() has to make next, or "no"
    left,       \* timer_thread's local countdown
    duration_sec, \* cfg.duration_sec
    sigPending, \* an INT/TERM sent to the process is pending
    sigKill,    \* the TERM main sent to the signal thread is pending
    stopWins,   \* history: the number of atomic_exchange calls that returned 0
    closeLog,   \* history: the queue of every bq_close made by request_stop, in order
    stopLost,    \* history: a request_stop call found g_stop already set
    hold,       \* thread -> the frame, packet or chunk a stage owns at the moment
    events,     \* the number of signals sent and of device and file failures so far
    exit_code,  \* the exit status of the process, once main() has returned
    startup_failure, \* history: the startup step that failed, or "none"
    uncreated,  \* the thread whose pthread_create failed, if one did
    feeds,      \* the capture threads whose device delivers data in this run
    lastItem,   \* the last frame or chunk the devices deliver in this run
    now,        \* the last reading video_capture_thread took of the monotonic clock
    pts_us,     \* frame or chunk -> its pts_us field
    ep_pts_us,  \* frame -> the pts_us field of the packet encoded from it
    sunk,       \* history: sink -> the pts_us of the items it popped, in order
    audio_pts,  \* audio_capture_thread's local pts_us
    sample_rate, \* ac.sample_rate
    frames_log, \* history: the frames field of every chunk produced, in order
    pts_log,    \* history: audio_pts at the anchor and after every chunk
    drop_count, \* g_stats.drop_count, summed over all windows
    video_frames, \* g_stats.video_frames, summed over all windows
    venc_drops, \* history: the part of drop_count added by video_encode_thread
    venc_popped, \* history: the number of frames video_encode_thread popped
    no_packet,  \* history: the frames for which the encoder gave no packet
    refused,    \* history: the packets bq_push did not take
    has_seq,    \* video_capture_thread's local has_seq
    last_seq,   \* video_capture_thread's local last_seq, a uint32_t
    prev_seq,   \* history: last_seq before the last successful dequeue, if any
    dq_ret,     \* what the last v4l2_capture_dqbuf returned
    drop_added, \* the n of the av_stats_add_drop made after that dequeue, or zero
    frees,      \* history: kind of object -> item -> the number of times it was freed
    qbufs,      \* history: per buffer dequeued, the v4l2_capture_qbuf calls made for it
    sink_file,  \* sink -> its FILE, the item it has popped, and what fwrite returned so far
    audio_chunks, \* g_stats.audio_chunks
    enc_bytes,  \* g_stats.enc_bytes
    tick_read,  \* history: counter -> the sum of what av_stats_tick_print read from it
    added,      \* history: counter -> the sum of what was added to it
    sleeps,     \* history: the number of sleep(1) calls timer_thread has made
    ac,         \* audio_capture_thread's AudioCapture: channels, bytes_per_frame
    chunk,      \* the AudioChunk audio_capture_thread built last
    g_video_pts_delta_us, \* the atomic gauge h264_sink_thread stores into
    last_pts    \* h264_sink_thread's local last_pts

qvars == <<queues, call, accepted, delivered, poppedAtClose>>

\* What the queue and the threads' control flow do not depend on: each
\* specification says which of these it follows.
startVars == <<exit_code, startup_failure, uncreated>>

feedVars == <<feeds, lastItem>>

ptsVars == <<now, pts_us, ep_pts_us, sunk, audio_pts, sample_rate, frames_log, pts_log>>

statVars == <<drop_count, video_frames, venc_drops, venc_popped, no_packet, refused>>

seqVars == <<has_seq, last_seq, prev_seq, dq_ret, drop_added>>

resVars == <<frees, qbufs, sink_file>>

tickVars == <<audio_chunks, enc_bytes, tick_read, added>>

chunkVars == <<ac, chunk>>

gaugeVars == <<g_video_pts_delta_us, last_pts>>

auxVars == <<resVars, tickVars, sleeps, chunkVars, gaugeVars>>

dataVars == <<feedVars, ptsVars, statVars, seqVars, auxVars>>

layerVars == <<startVars, dataVars>>

pipeVars == <<rs, left, duration_sec, sigPending, sigKill,
              stopWins, closeLog, stopLost, hold, events, layerVars>>

vars == <<queues, call, pc, g_stop, nextItem, accepted, delivered, poppedAtClose,
          rs, left, duration_sec, sigPending, sigKill,
          stopWins, closeLog, stopLost, hold, events, layerVars>>

(***************************************************************************)
(* Bounds of the model.                                                    *)
(***************************************************************************)
QCap == 2
MaxItems == 4
PipeCap == 1
PipeItems == 2
MaxEvents == 1
MaxSec == 1
MediaItems == 2
MaxClock == 1

NULL == 0

(***************************************************************************)
(* BQueue: the pure state transformers of bqueue.c.                        *)
(***************************************************************************)
bq_init(capacity) ==
    [ items     |-> [i \in 0..(capacity - 1) |-> NULL],
      capacity  |-> capacity,
      size      |-> 0,
      head      |-> 0,
      tail      |-> 0,
      closed    |-> 0,
      not_empty |-> {},
      not_full  |-> {} ]

PushMustWaitIgnoresClosed(q) == q.size = q.capacity

\* while (!q->closed && q->size == q->capacity)
PushMustWait(q) == q.closed = 0 /\ q.size = q.capacity

\* if (q->closed) return -1;   (bq_push after its loop, bq_try_push first)
PushRefusedNever(q) == FALSE

PushRefused(q) == q.closed # 0

\* if (q->size == q->capacity) return 1;
TryPushFull(q) == q.size = q.capacity

PopMustWaitIgnoresClosed(q) == q.size = 0

\* while (!q->closed && q->size == 0)
PopMustWait(q) == q.closed = 0 /\ q.size = 0

\* if (q->size == 0 && q->closed) return 0;
PopTerminal(q) == q.size = 0 /\ q.closed # 0

EnqueueKeepsSize(q, item) ==
    [q EXCEPT !.items[q.tail] = item,
              !.tail = (q.tail + 1) % q.capacity]

EnqueueTailStuck(q, item) ==
    [q EXCEPT !.items[q.tail] = item,
              !.size = q.size + 1]

\* items[tail] = item; tail = (tail + 1) % capacity; size++;
Enqueue(q, item) ==
    [q EXCEPT !.items[q.tail] = item,
              !.tail = (q.tail + 1) % q.capacity,
              !.size = q.size + 1]

HeadItemNewest(q) == q.items[(q.tail + q.capacity - 1) % q.capacity]

\* item = items[head]
HeadItem(q) == q.items[q.head]

DequeueSizeOnly(q) == [q EXCEPT !.size = q.size - 1]

DequeueHeadStuck(q) ==
    [q EXCEPT !.items[q.head] = NULL,
              !.size = q.size - 1]

\* items[head] = NULL; head = (head + 1) % capacity; size--;
Dequeue(q) ==
    [q EXCEPT !.items[q.head] = NULL,
              !.head = (q.head + 1) % q.capacity,
              !.size = q.size - 1]

CloseWakesPopSideOnly(q) == q.not_empty

\* The threads bq_close takes out of their wait: pthread_cond_broadcast on
\* not_empty and on not_full.
CloseWakes(q) == q.not_empty \cup q.not_full

CloseQueueToggles(q) ==
    [q EXCEPT !.closed = 1 - q.closed,
              !.not_empty = q.not_empty \ CloseWakes(q),
              !.not_full = q.not_full \ CloseWakes(q)]

\* q->closed = 1; broadcast not_empty; broadcast not_full
CloseQueue(q) ==
    [q EXCEPT !.closed = 1,
              !.not_empty = q.not_empty \ CloseWakes(q),
              !.not_full = q.not_full \ CloseWakes(q)]

\* The resident items, oldest first: items[head], items[head+1], ...
Contents(q) ==
    [i \in 1..q.size |-> q.items[(q.head + i - 1) % q.capacity]]

(***************************************************************************)
(* Calls.  call[t] is the queue operation thread t is inside or has last   *)
(* returned from: st is "idle" (never called), "wait" (parked inside       *)
(* pthread_cond_wait), "woken" (taken out of the wait, has to re-acquire   *)
(* the mutex and re-evaluate the loop condition) or "ret" (returned; ret   *)
(* and out hold the result).  The call itself (evaluating the arguments,   *)
(* the NULL checks) is local to the caller, so it is one step with the     *)
(* first pass through the critical section.                                *)
(***************************************************************************)
\* The history h with x appended for queue qid; histories are kept for the
\* queues in their domain.
Record(h, qid, x) ==
    IF qid \in DOMAIN h THEN [h EXCEPT ![qid] = Append(@, x)] ELSE h

NoThread == "nobody"

\* main() has not returned.
NoExit == 1000

StartIdle ==
    /\ exit_code = NoExit
    /\ startup_failure = "none"
    /\ uncreated = NoThread

\* Both devices deliver, PipeItems frames and chunks in all.
FeedIdle ==
    /\ feeds = {"vcap", "acap"}
    /\ lastItem = PipeItems

\* No time stamp has been taken.
PtsIdle ==
    /\ now = 0
    /\ pts_us = << >>
    /\ ep_pts_us = << >>
    /\ sunk = [h264sink |-> << >>, pcmsink |-> << >>]
    /\ audio_pts = 0
    /\ sample_rate = 48000
    /\ frames_log = << >>
    /\ pts_log = << >>

\* The counters after av_stats_init.
StatIdle ==
    /\ drop_count = 0
    /\ video_frames = 0
    /\ venc_drops = 0
    /\ venc_popped = 0
    /\ no_packet = 0
    /\ refused = 0

\* A uint32_t is the pair of its high and its low 16 bits.
Zero32 == <<0, 0>>

NoSeq == <<-1, -1>>

\* int has_seq = 0; uint32_t last_seq = 0; and no dequeue yet.
SeqIdle ==
    /\ has_seq = 0
    /\ last_seq = Zero32
    /\ prev_seq = NoSeq
    /\ dq_ret = 1
    /\ drop_added = Zero32

StatNames == {"video_frames", "enc_bytes", "audio_chunks", "drop_count"}

\* Nothing was freed, dequeued, written, counted or slept yet.
AuxIdle ==
    /\ frees = [k \in {"vf", "ep", "ac"} |-> << >>]
    /\ qbufs = << >>
    /\ sink_file = [t \in {"h264sink", "pcmsink"} |->
                       [open |-> FALSE, item |-> NULL, ok |-> 0, partial |-> 0]]
    /\ audio_chunks = 0
    /\ enc_bytes = 0
    /\ tick_read = [c \in StatNames |-> 0]
    /\ added = [c \in StatNames |-> 0]
    /\ sleeps = 0
    /\ ac = [channels |-> 2, bytes_per_frame |-> 4]
    /\ chunk = [bytes |-> 0, channels |-> 0, bytes_per_sample |-> 0, frames |-> 0]
    /\ g_video_pts_delta_us = 0
    /\ last_pts = 0

LayerIdle == StartIdle /\ FeedIdle /\ PtsIdle /\ StatIdle /\ SeqIdle /\ AuxIdle

IdleCall == [op |-> "none", q |-> "none", item |-> NULL, st |-> "idle",
             ret |-> 0, out |-> NULL, waited |-> FALSE]

\* The thread is inside pthread_cond_wait; waited records that it ever was.
Parked(op, qid, item) ==
    [op |-> op, q |-> qid, item |-> item, st |-> "wait",
     ret |-> 0, out |-> NULL, waited |-> TRUE]

Returned(op, qid, r, o, waited) ==
    [op |-> op, q |-> qid, item |-> NULL, st |-> "ret",
     ret |-> r, out |-> o, waited |-> waited]

Woken(c) == [c EXCEPT !.st = "woken"]

SignalNobody(S) == {NoThread}

\* pthread_cond_signal on a waiter set: one waiter leaves, if there is one.
SignalChoices(S) == IF S = {} THEN {NoThread} ELSE S

\* call' after t's record became rec and the threads of W left their wait.
CallAfter(t, rec, W) ==
    [u \in DOMAIN call |->
        IF u = t THEN rec
        ELSE IF u \in W THEN Woken(call[u])
        ELSE call[u]]

CanCall(t) == call[t].st \in {"idle", "ret"}

Resuming(t, op) == call[t].op = op /\ call[t].st = "woken"

(***************************************************************************)
(* bq_push: one pass of thread t through the critical section, from the    *)
(* lock (or the return of pthread_cond_wait) to the unlock (or the next    *)
(* pthread_cond_wait).  resumed: the pass follows a wait.                  *)
(***************************************************************************)
PushPass(t, qid, item, resumed) ==
    LET q == queues[qid]
    IN  IF PushMustWait(q)
        THEN /\ queues' = [queues EXCEPT ![qid].not_full = q.not_full \cup {t}]
             /\ call' = CallAfter(t, Parked("push", qid, item), {})
             /\ UNCHANGED <<accepted, delivered, poppedAtClose>>
        ELSE IF PushRefused(q)
        THEN /\ call' = CallAfter(t, Returned("push", qid, -1, NULL, resumed), {})
             /\ UNCHANGED <<queues, accepted, delivered, poppedAtClose>>
        ELSE \E w \in SignalChoices(q.not_empty) :
             /\ queues' = [queues EXCEPT
                   ![qid] = [Enqueue(q, item) EXCEPT !.not_empty = q.not_empty \ {w}]]
             /\ call' = CallAfter(t, Returned("push", qid, 0, NULL, resumed), {w})
             /\ accepted' = Record(accepted, qid, item)
             /\ UNCHANGED <<delivered, poppedAtClose>>

(***************************************************************************)
(* bq_try_push                                                             *)
(***************************************************************************)
TryPushPassFullFirst(t, qid, item) ==
    LET q == queues[qid]
    IN  IF TryPushFull(q)
        THEN /\ call' = CallAfter(t, Returned("try_push", qid, 1, NULL, FALSE), {})
             /\ UNCHANGED <<queues, accepted, delivered, poppedAtClose>>
        ELSE IF PushRefused(q)
        THEN /\ call' = CallAfter(t, Returned("try_push", qid, -1, NULL, FALSE), {})
             /\ UNCHANGED <<queues, accepted, delivered, poppedAtClose>>
        ELSE \E w \in SignalChoices(q.not_empty) :
             /\ queues' = [queues EXCEPT
                   ![qid] = [Enqueue(q, item) EXCEPT !.not_empty = q.not_empty \ {w}]]
             /\ call' = CallAfter(t, Returned("try_push", qid, 0, NULL, FALSE), {w})
             /\ accepted' = Record(accepted, qid, item)
             /\ UNCHANGED <<delivered, poppedAtClose>>

TryPushPass(t, qid, item) ==
    LET q == queues[qid]
    IN  IF PushRefused(q)
        THEN /\ call' = CallAfter(t, Returned("try_push", qid, -1, NULL, FALSE), {})
             /\ UNCHANGED <<queues, accepted, delivered, poppedAtClose>>
        ELSE IF TryPushFull(q)
        THEN /\ call' = CallAfter(t, Returned("try_push", qid, 1, NULL, FALSE), {})
             /\ UNCHANGED <<queues, accepted, delivered, poppedAtClose>>
        ELSE \E w \in SignalChoices(q.not_empty) :
             /\ queues' = [queues EXCEPT
                   ![qid] = [Enqueue(q, item) EXCEPT !.not_empty = q.not_empty \ {w}]]
             /\ call' = CallAfter(t, Returned("try_push", qid, 0, NULL, FALSE), {w})
             /\ accepted' = Record(accepted, qid, item)
             /\ UNCHANGED <<delivered, poppedAtClose>>

(***************************************************************************)
(* bq_pop                                                                  *)
(***************************************************************************)
PopPass(t, qid, resumed) ==
    LET q == queues[qid]
    IN  IF PopMustWait(q)
        THEN /\ queues' = [queues EXCEPT ![qid].not_empty = q.not_empty \cup {t}]
             /\ call' = CallAfter(t, Parked("pop", qid, NULL), {})
             /\ UNCHANGED <<accepted, delivered, poppedAtClose>>
        ELSE IF PopTerminal(q)
        THEN /\ call' = CallAfter(t, Returned("pop", qid, 0, NULL, resumed), {})
             /\ UNCHANGED <<queues, accepted, delivered, poppedAtClose>>
        ELSE \E w \in SignalChoices(q.not_full) :
             /\ queues' = [queues EXCEPT
                   ![qid] = [Dequeue(q) EXCEPT !.not_full = q.not_full \ {w}]]
             /\ call' = CallAfter(t, Returned("pop", qid, 1, HeadItem(q), resumed), {w})
             /\ delivered' = Record(delivered, qid, HeadItem(q))
             /\ UNCHANGED <<accepted, poppedAtClose>>

(***************************************************************************)
(* bq_close                                                                *)
(***************************************************************************)
\* rec is what the caller keeps of the call once bq_close has returned.
CloseSection(t, qid, rec) ==
    LET q == queues[qid]
    IN  /\ queues' = [queues EXCEPT ![qid] = CloseQueue(q)]
        /\ call' = CallAfter(t, rec, CloseWakes(q))
        /\ poppedAtClose' =
              IF q.closed = 0 /\ qid \in DOMAIN poppedAtClose
              THEN [poppedAtClose EXCEPT ![qid] = Len(delivered[qid])]
              ELSE poppedAtClose
        /\ UNCHANGED <<accepted, delivered>>

ClosePass(t, qid) == CloseSection(t, qid, Returned("close", qid, 0, NULL, FALSE))

(***************************************************************************)
(* A thread taken out of pthread_cond_wait runs the loop test again.       *)
(***************************************************************************)
bq_push_resume(t) ==
    /\ Resuming(t, "push")
    /\ PushPass(t, call[t].q, call[t].item, TRUE)
    /\ UNCHANGED <<pc, g_stop, nextItem, pipeVars>>

bq_pop_resume(t) ==
    /\ Resuming(t, "pop")
    /\ PopPass(t, call[t].q, TRUE)
    /\ UNCHANGED <<pc, g_stop, nextItem, pipeVars>>

(***************************************************************************)
(* pthread_cond_wait may return without a signal (a spurious wake-up).     *)
(***************************************************************************)
SpuriousWakeup(t) ==
    /\ call[t].st = "wait"
    /\ LET qid == call[t].q
           q   == queues[qid]
       IN  queues' = [queues EXCEPT ![qid].not_empty = q.not_empty \ {t},
                                    ![qid].not_full  = q.not_full \ {t}]
    /\ call' = [call EXCEPT ![t] = Woken(call[t])]
    /\ UNCHANGED <<accepted, delivered, poppedAtClose>>
    /\ UNCHANGED <<pc, g_stop, nextItem, pipeVars>>

(***************************************************************************)
(* Specification Spec: arbitrary client threads on one queue.  Each thread *)
(* calls bq_push, bq_try_push, bq_pop and bq_close in any order, with a    *)
(* fresh item handle for every push.                                       *)
(***************************************************************************)
Clients == {"t1", "t2", "t3"}
TheQ == "q"

bq_push(t) ==
    /\ CanCall(t)
    /\ nextItem <= MaxItems
    /\ PushPass(t, TheQ, nextItem, FALSE)
    /\ nextItem' = nextItem + 1
    /\ UNCHANGED <<pc, g_stop, pipeVars>>

bq_try_push(t) ==
    /\ CanCall(t)
    /\ nextItem <= MaxItems
    /\ TryPushPass(t, TheQ, nextItem)
    /\ nextItem' = nextItem + 1
    /\ UNCHANGED <<pc, g_stop, pipeVars>>

bq_pop(t) ==
    /\ CanCall(t)
    /\ PopPass(t, TheQ, FALSE)
    /\ UNCHANGED <<pc, g_stop, nextItem, pipeVars>>

bq_close(t) ==
    /\ CanCall(t)
    /\ ClosePass(t, TheQ)
    /\ UNCHANGED <<pc, g_stop, nextItem, pipeVars>>

Init ==
    /\ queues = [qid \in {TheQ} |-> bq_init(QCap)]
    /\ call = [t \in Clients |-> IdleCall]
    /\ pc = [t \in Clients |-> "client"]
    /\ g_stop = 0
    /\ nextItem = 1
    /\ accepted = [qid \in {TheQ} |-> <<>>]
    /\ delivered = [qid \in {TheQ} |-> <<>>]
    /\ poppedAtClose = [qid \in {TheQ} |-> -1]
    /\ rs = [t \in Clients |-> "no"]
    /\ left = 0
    /\ duration_sec = 0
    /\ sigPending = FALSE
    /\ sigKill = FALSE
    /\ stopWins = 0
    /\ closeLog = <<>>
    /\ stopLost = FALSE
    /\ hold = [t \in Clients |-> NULL]
    /\ events = 0
    /\ LayerIdle

Next ==
    \E t \in Clients :
        \/ bq_push(t)
        \/ bq_try_push(t)
        \/ bq_pop(t)
        \/ bq_close(t)
        \/ bq_push_resume(t)
        \/ bq_pop_resume(t)
        \/ SpuriousWakeup(t)

Spec == Init /\ [][Next]_vars

\* A thread that left pthread_cond_wait is scheduled again and gets the mutex.
FairSpec == Spec /\ \A t \in Clients :
    WF_vars(bq_push_resume(t) \/ bq_pop_resume(t))

(***************************************************************************)
(* Helpers for the properties.                                             *)
(***************************************************************************)
IsPrefix(s, t) == Len(s) <= Len(t) /\ \A i \in 1..Len(s) : s[i] = t[i]

TheQueue == queues[TheQ]

\* Thread t makes a pass through the critical section of the operation in
\* this step, as a new call or after a wait.
PushStep(t) == bq_push(t) \/ bq_push_resume(t)
TryPushStep(t) == bq_try_push(t)
PopStep(t) == bq_pop(t) \/ bq_pop_resume(t)
CloseStep(t) == bq_close(t)

\* The item the push of this step carries.
PushedItem(t) == IF Resuming(t, "push") THEN call[t].item ELSE nextItem

\* C1: on one queue, under any interleaving of bq_push, bq_try_push and bq_pop
\* callers, the items returned by successful pops, in pop order, are a prefix
\* of the items accepted by push/try_push (return 0), in acceptance order.
C1_FifoPrefix == IsPrefix(delivered[TheQ], accepted[TheQ])

\* Witness of C1: two items were accepted, both in the queue at once, and both
\* have been popped, by pops of two different threads.
C1_Witness ==
    /\ Len(delivered[TheQ]) >= 2
    /\ \E t, u \in Clients :
          /\ t # u
          /\ call[t].op = "pop" /\ call[t].st = "ret" /\ call[t].ret = 1
          /\ call[u].op = "pop" /\ call[u].st = "ret" /\ call[u].ret = 1
          /\ call[t].out = delivered[TheQ][1]
          /\ call[u].out = delivered[TheQ][2]

\* C2: bq_push parks in pthread_cond_wait exactly when the queue is full and
\* not closed; on a closed queue (closed before the call or while it waited) it
\* returns -1 and leaves size, head, tail and the slots unchanged; otherwise it
\* stores the item at the tail, advances tail, increments size and returns 0.
C2_PushContract ==
    [][\A t \in Clients : PushStep(t) =>
        LET q == TheQueue
            r == TheQueue'
            c == call'[t]
        IN  /\ (c.st = "wait") <=> (q.size = q.capacity /\ q.closed = 0)
            /\ c.st = "wait" => t \in r.not_full
            /\ q.closed # 0 =>
                  /\ c.st = "ret" /\ c.ret = -1
                  /\ r.size = q.size /\ r.head = q.head /\ r.tail = q.tail
                  /\ r.items = q.items
                  /\ accepted' = accepted
            /\ (q.closed = 0 /\ q.size < q.capacity) =>
                  /\ c.st = "ret" /\ c.ret = 0
                  /\ r.items[q.tail] = PushedItem(t)
                  /\ r.tail = (q.tail + 1) % q.capacity
                  /\ r.size = q.size + 1
                  /\ r.head = q.head
                  /\ Contents(r) = Append(Contents(q), PushedItem(t))
    ]_vars

\* Witness of C2: a bq_push that waited on the full queue has returned -1
\* after the queue was closed, and the queue is still full.
C2_Witness ==
    \E t \in Clients :
        /\ call[t].op = "push" /\ call[t].st = "ret" /\ call[t].waited
        /\ call[t].ret = -1
        /\ TheQueue.closed = 1 /\ TheQueue.size = TheQueue.capacity

\* C3: bq_try_push never parks on a condition variable and has exactly three
\* outcomes: 0 when the queue is open and size < capacity, the item appended;
\* 1 when it is open and full; -1 when it is closed; on 1 and -1 the queue is
\* unchanged.
C3_TryPushContract ==
    [][\A t \in Clients : TryPushStep(t) =>
        LET q == TheQueue
            r == TheQueue'
            c == call'[t]
        IN  /\ c.st = "ret" /\ ~c.waited
            /\ t \notin (r.not_full \cup r.not_empty)
            /\ c.ret \in {0, 1, -1}
            /\ (c.ret = 0) <=> (q.closed = 0 /\ q.size < q.capacity)
            /\ (c.ret = 1) <=> (q.closed = 0 /\ q.size = q.capacity)
            /\ (c.ret = -1) <=> (q.closed # 0)
            /\ c.ret = 0 => /\ Contents(r) = Append(Contents(q), PushedItem(t))
                            /\ r.size = q.size + 1
            /\ c.ret # 0 => r = q /\ accepted' = accepted
    ]_vars

\* Witness of C3: the three outcomes side by side: one bq_try_push returned 0,
\* one returned 1 (Full) on the full queue, and one returned -1 after the close,
\* the queue still full.
C3_Witness ==
    /\ TheQueue.closed = 1 /\ TheQueue.size = TheQueue.capacity
    /\ \E t, u, v \in Clients :
          /\ call[t].op = "try_push" /\ call[t].st = "ret" /\ call[t].ret = 0
          /\ call[u].op = "try_push" /\ call[u].st = "ret" /\ call[u].ret = 1
          /\ call[v].op = "try_push" /\ call[v].st = "ret" /\ call[v].ret = -1

\* C4: bq_pop parks exactly when the queue is empty and not closed, returns
\* the terminal value 0 exactly when the queue is empty and closed, and in
\* every other return delivers the head item and decrements size by one.
C4_PopContract ==
    [][\A t \in Clients : PopStep(t) =>
        LET q == TheQueue
            r == TheQueue'
            c == call'[t]
        IN  /\ (c.st = "wait") <=> (q.size = 0 /\ q.closed = 0)
            /\ c.st = "wait" => t \in r.not_empty
            /\ (c.st = "ret" /\ c.ret = 0) <=> (q.size = 0 /\ q.closed # 0)
            /\ (c.st = "ret" /\ c.ret = 0) => (r = q /\ r.size = 0 /\ r.closed # 0)
            /\ q.size > 0 =>
                  /\ c.st = "ret" /\ c.ret = 1
                  /\ c.out = q.items[q.head]
                  /\ c.out = Head(Contents(q))
                  /\ r.size = q.size - 1
                  /\ Contents(r) = Tail(Contents(q))
    ]_vars

\* Witness of C4: a bq_pop that waited on the empty queue returned 0 after
\* the queue was closed.
C4_Witness ==
    \E t \in Clients :
        /\ call[t].op = "pop" /\ call[t].st = "ret" /\ call[t].waited
        /\ call[t].ret = 0
        /\ TheQueue.closed = 1 /\ TheQueue.size = 0


\* C5: once bq_close has completed, every bq_push and bq_try_push fails and
\* size never increases again, while bq_pop still returns each item that was
\* resident at close time, in FIFO order, before it returns the terminal value.
C5_AfterClose ==
    [][TheQueue.closed # 0 =>
        LET q == TheQueue
            r == TheQueue'
        IN  /\ r.closed # 0
            /\ r.size <= q.size
            /\ accepted' = accepted
            /\ \A t \in Clients :
                  /\ PushStep(t) => call'[t].st = "ret" /\ call'[t].ret = -1
                  /\ TryPushStep(t) => call'[t].ret = -1
                  /\ PopStep(t) =>
                        /\ call'[t].st = "ret"
                        /\ IF Contents(q) = <<>>
                           THEN call'[t].ret = 0 /\ r = q
                           ELSE /\ call'[t].ret = 1
                                /\ call'[t].out = Head(Contents(q))
                                /\ Contents(r) = Tail(Contents(q))
            /\ delivered[TheQ] \o Contents(q) = accepted[TheQ]
    ]_vars

\* Witness of C5: two items were resident when the queue was closed, both have
\* been popped since, a pop has then returned the terminal value, and a push
\* made after the close has failed.
C5_Witness ==
    /\ TheQueue.closed = 1
    /\ poppedAtClose[TheQ] >= 0
    /\ Len(delivered[TheQ]) >= poppedAtClose[TheQ] + 2
    /\ Len(accepted[TheQ]) = Len(delivered[TheQ])
    /\ \E t, u \in Clients :
          /\ call[t].op = "pop" /\ call[t].st = "ret" /\ call[t].ret = 0
          /\ call[u].op \in {"push", "try_push"} /\ call[u].st = "ret"
          /\ call[u].ret = -1

\* C6: once the queue is closed and empty it stays closed and empty, and every
\* bq_pop pass made in that state returns the terminal value 0 without parking.
C6_ClosedEmptyTerminal ==
    [][(TheQueue.closed # 0 /\ TheQueue.size = 0) =>
        /\ TheQueue'.closed # 0 /\ TheQueue'.size = 0
        /\ \A t \in Clients : PopStep(t) =>
              /\ call'[t].st = "ret" /\ call'[t].ret = 0
              /\ t \notin TheQueue'.not_empty
    ]_vars

\* Witness of C6: after the queue was closed and drained, two different
\* consumers that never waited have each been handed the terminal value.
C6_Witness ==
    /\ TheQueue.closed = 1 /\ TheQueue.size = 0
    /\ Len(delivered[TheQ]) >= 1
    /\ \E t, u \in Clients :
          /\ t # u
          /\ call[t].op = "pop" /\ call[t].st = "ret" /\ call[t].ret = 0
          /\ ~call[t].waited
          /\ call[u].op = "pop" /\ call[u].st = "ret" /\ call[u].ret = 0
          /\ ~call[u].waited

\* C7: bq_close is idempotent: a bq_close on an already closed queue leaves
\* the closed flag, size, head, tail, the stored items and the waiter sets as
\* they were (so later operations see the state one close left), and the first
\* one changes only the closed flag and the waiter sets.
C7_CloseIdempotent ==
    [][\A t \in Clients : CloseStep(t) =>
        LET q == TheQueue
            r == TheQueue'
        IN  /\ r.closed = 1
            /\ r.size = q.size /\ r.head = q.head /\ r.tail = q.tail
            /\ r.items = q.items /\ r.capacity = q.capacity
            /\ q.closed # 0 => r = q
            /\ accepted' = accepted /\ delivered' = delivered
    ]_vars

\* Witness of C7: two bq_close calls have returned on a queue that still holds
\* an item.
C7_Witness ==
    /\ TheQueue.closed = 1 /\ TheQueue.size >= 1
    /\ \E t, u \in Clients :
          /\ t # u
          /\ call[t].op = "close" /\ call[t].st = "ret"
          /\ call[u].op = "close" /\ call[u].st = "ret"

\* C8: bq_close wakes all waiters: no thread is parked on, or starts to wait
\* on, a closed queue, and every thread that is inside a bq_push or bq_pop wait
\* loop on a closed queue eventually returns, a push with -1 and a pop with an
\* item or the terminal value.
C8_CloseWakesAll ==
    /\ [](TheQueue.closed # 0 =>
            /\ TheQueue.not_empty = {} /\ TheQueue.not_full = {}
            /\ \A t \in Clients : call[t].st # "wait")
    /\ [][\A t \in Clients :
            (call[t].op = "push" /\ call[t].waited /\ call'[t].st = "ret"
               /\ call[t].st # "ret" /\ TheQueue.closed # 0)
            => call'[t].ret = -1]_vars
    /\ \A t \in Clients :
          (TheQueue.closed # 0 /\ call[t].st \in {"wait", "woken"})
             ~> (call[t].st = "ret")

\* Witness of C8: two consumers that were both parked in bq_pop have returned
\* the terminal value after a third thread closed the queue.
C8_Witness ==
    /\ TheQueue.closed = 1
    /\ \E t, u, k \in Clients :
          /\ t # u
          /\ call[t].op = "pop" /\ call[t].st = "ret" /\ call[t].waited
          /\ call[u].op = "pop" /\ call[u].st = "ret" /\ call[u].waited
          /\ call[t].ret = 0 /\ call[u].ret = 0
          /\ call[k].op = "close" /\ call[k].st = "ret"

\* C12: no item is delivered twice: the items returned by successful pops
\* are pairwise different, each successful bq_pop hands its item (one that was
\* accepted and not delivered before) to the calling thread only, and the slot
\* it was taken from is cleared, so no slot of the queue holds a delivered item.
C12_NoDoubleDelivery ==
    /\ [](LET d == delivered[TheQ]
          IN  /\ \A i, j \in 1..Len(d) : i # j => d[i] # d[j]
              /\ \A i \in 1..Len(d) : \A k \in DOMAIN TheQueue.items :
                    TheQueue.items[k] # d[i]
              /\ \A t, u \in Clients :
                    (/\ t # u
                     /\ call[t].op = "pop" /\ call[t].st = "ret" /\ call[t].ret = 1
                     /\ call[u].op = "pop" /\ call[u].st = "ret" /\ call[u].ret = 1)
                    => call[t].out # call[u].out)
    /\ [][\A t \in Clients :
            (PopStep(t) /\ call'[t].st = "ret" /\ call'[t].ret = 1) =>
                /\ delivered'[TheQ] = Append(delivered[TheQ], call'[t].out)
                /\ \E i \in 1..Len(accepted[TheQ]) : accepted[TheQ][i] = call'[t].out
                /\ \A i \in 1..Len(delivered[TheQ]) : delivered[TheQ][i] # call'[t].out
                /\ TheQueue'.items[TheQueue.head] = NULL
                /\ \A u \in Clients \ {t} : call'[u].out = call[u].out]_vars

\* Witness of C12: three items have been delivered through the two slots, so
\* a slot has been used again after its first item was popped, and two
\* consumers hold the second and the third item.
C12_Witness ==
    /\ Len(delivered[TheQ]) >= 3
    /\ \E t, u \in Clients :
          /\ t # u
          /\ call[t].op = "pop" /\ call[t].st = "ret" /\ call[t].ret = 1
          /\ call[u].op = "pop" /\ call[u].st = "ret" /\ call[u].ret = 1
          /\ call[t].out = delivered[TheQ][2]
          /\ call[u].out = delivered[TheQ][3]

(***************************************************************************)
(* The pipeline of main.c: the orchestrator main(), the five stages and    *)
(* the three control threads, on the queues g_raw_vq, g_h264_q and         *)
(* g_aud_q.  One action holds at most one access to shared memory (a load  *)
(* or the exchange on g_stop, or one critical section of a queue); what a  *)
(* device call (V4L2, ALSA, the encoder, fopen, fwrite) returns is chosen  *)
(* in a thread-local step.                                                 *)
(***************************************************************************)
Stages == {"vcap", "venc", "acap", "h264sink", "pcmsink"}
Sinks == {"h264sink", "pcmsink"}
Workers == Stages \cup {"sig", "timer", "stat"}
Threads == Workers \cup {"main"}
QueueIds == {"raw", "h264", "aud"}

\* static int should_stop(void)
should_stop == g_stop # 0

StopMustCloseAlways(prev) == TRUE

\* if (prev == 0) { bq_close x3 }
StopMustClose(prev) == prev = 0

NextCloseSkipsAud(qid) ==
    CASE qid = "raw"  -> "h264"
      [] OTHER        -> "no"

\* The order of the three bq_close calls of request_stop.
NextClose(qid) ==
    CASE qid = "raw"  -> "h264"
      [] qid = "h264" -> "aud"
      [] OTHER        -> "no"

\* Thread t is at label l of its function and not inside request_stop.
At(t, l) == pc[t] = l /\ rs[t] = "no"

Goto(t, l) == pc' = [pc EXCEPT ![t] = l]

\* while (!should_stop()) { body }: the loop test.
LoopTest(t, body) == Goto(t, IF should_stop THEN "done" ELSE body)

\* The thread function of t has returned.
Terminated(t) == pc[t] = "done" /\ rs[t] = "no"

\* The return value and the out-pointer of a finished call are consumed.
Consume(t) == call' = [call EXCEPT ![t] = IdleCall]

\* The queue a stage pushes into and the one it pops.
OutputQueue(t) ==
    CASE t = "vcap" -> "raw"
      [] t = "venc" -> "h264"
      [] OTHER      -> "aud"

InputQueue(t) ==
    CASE t = "venc"     -> "raw"
      [] t = "h264sink" -> "h264"
      [] OTHER          -> "aud"

\* request_stop(): int prev = atomic_exchange(&g_stop, 1); the closes follow
\* one by one in request_stop_close.
RequestStop(t) ==
    /\ g_stop' = 1
    /\ rs' = [rs EXCEPT ![t] = IF StopMustClose(g_stop) THEN "raw" ELSE "no"]
    /\ stopWins' = IF g_stop = 0 THEN stopWins + 1 ELSE stopWins
    /\ stopLost' = (stopLost \/ g_stop # 0)

NoStop == UNCHANGED <<g_stop, rs, stopWins, stopLost>>

request_stop_close(t) ==
    /\ rs[t] # "no"
    /\ CloseSection(t, rs[t], IdleCall)
    /\ rs' = [rs EXCEPT ![t] = NextClose(rs[t])]
    /\ closeLog' = Append(closeLog, rs[t])
    /\ UNCHANGED <<pc, g_stop, nextItem, left, duration_sec, sigPending, sigKill,
                   stopWins, stopLost, hold, events>>

(***************************************************************************)
(* The five stages                                                         *)
(***************************************************************************)
\* v4l2_capture_open/start, encoder_init, audio_capture_open, fopen: the
\* stage enters its loop, or the call fails.
stage_open(t) ==
    /\ At(t, "open")
    /\ \/ Goto(t, "loop") /\ UNCHANGED events
       \/ events < MaxEvents /\ events' = events + 1 /\ Goto(t, "open_failed")
    /\ NoStop
    /\ UNCHANGED <<qvars, nextItem, left, duration_sec, sigPending, sigKill,
                   closeLog, hold>>

stage_open_failed_no_stop(t) ==
    /\ At(t, "open_failed")
    /\ NoStop
    /\ Goto(t, "done")
    /\ UNCHANGED <<qvars, nextItem, left, duration_sec, sigPending, sigKill,
                   closeLog, hold, events>>

\* ... request_stop(); return NULL;
stage_open_failed(t) ==
    /\ At(t, "open_failed")
    /\ RequestStop(t)
    /\ Goto(t, "done")
    /\ UNCHANGED <<qvars, nextItem, left, duration_sec, sigPending, sigKill,
                   closeLog, hold, events>>

\* while (!should_stop()) { v4l2_capture_dqbuf / audio_capture_read and the
\* allocation of the item ... }.  Without an item (nothing ready, a device
\* error, an allocation failure) the loop continues; with one, the push is
\* next.
capture_grab_break_on_error(t) ==
    /\ At(t, "loop")
    /\ IF should_stop
       THEN Goto(t, "done") /\ UNCHANGED <<nextItem, hold>>
       ELSE \/ Goto(t, "done") /\ UNCHANGED <<nextItem, hold>>
            \/ /\ t \in feeds
               /\ nextItem <= lastItem
               /\ hold' = [hold EXCEPT ![t] = nextItem]
               /\ nextItem' = nextItem + 1
               /\ Goto(t, "call_push")
    /\ NoStop
    /\ UNCHANGED <<qvars, left, duration_sec, sigPending, sigKill, closeLog, events>>

capture_grab(t) ==
    /\ At(t, "loop")
    /\ IF should_stop
       THEN Goto(t, "done") /\ UNCHANGED <<nextItem, hold>>
       ELSE \/ UNCHANGED <<pc, nextItem, hold>>
            \/ /\ t \in feeds
               /\ nextItem <= lastItem
               /\ hold' = [hold EXCEPT ![t] = nextItem]
               /\ nextItem' = nextItem + 1
               /\ Goto(t, "call_push")
    /\ NoStop
    /\ UNCHANGED <<qvars, left, duration_sec, sigPending, sigKill, closeLog, events>>

video_capture_push_blocking ==
    /\ At("vcap", "call_push")
    /\ PushPass("vcap", "raw", hold["vcap"], FALSE)
    /\ Goto("vcap", "push")
    /\ NoStop
    /\ UNCHANGED <<nextItem, left, duration_sec, sigPending, sigKill, closeLog,
                   hold, events>>

\* pr = bq_try_push(&g_raw_vq, vf)
video_capture_push ==
    /\ At("vcap", "call_push")
    /\ TryPushPass("vcap", "raw", hold["vcap"])
    /\ Goto("vcap", "push")
    /\ NoStop
    /\ UNCHANGED <<nextItem, left, duration_sec, sigPending, sigKill, closeLog,
                   hold, events>>

\* pr == 1 drops the frame, pr < 0 frees it and breaks, 0 has handed it over;
\* the buffer is requeued.
video_capture_pushed ==
    /\ At("vcap", "push")
    /\ call["vcap"].st = "ret"
    /\ Goto("vcap", IF call["vcap"].ret < 0 THEN "done" ELSE "loop")
    /\ hold' = [hold EXCEPT !["vcap"] = NULL]
    /\ Consume("vcap")
    /\ NoStop
    /\ UNCHANGED <<queues, accepted, delivered, poppedAtClose, nextItem, left,
                   duration_sec, sigPending, sigKill, closeLog, events>>

audio_capture_push_try ==
    /\ At("acap", "call_push")
    /\ TryPushPass("acap", "aud", hold["acap"])
    /\ Goto("acap", "push")
    /\ NoStop
    /\ UNCHANGED <<nextItem, left, duration_sec, sigPending, sigKill, closeLog,
                   hold, events>>

\* pr = bq_push(&g_aud_q, chunk)
audio_capture_push ==
    /\ At("acap", "call_push")
    /\ PushPass("acap", "aud", hold["acap"], FALSE)
    /\ Goto("acap", "push")
    /\ NoStop
    /\ UNCHANGED <<nextItem, left, duration_sec, sigPending, sigKill, closeLog,
                   hold, events>>

\* pr != 0: free_audio_chunk(chunk); break.
audio_capture_pushed ==
    /\ At("acap", "push")
    /\ call["acap"].st = "ret"
    /\ Goto("acap", IF call["acap"].ret # 0 THEN "done" ELSE "loop")
    /\ hold' = [hold EXCEPT !["acap"] = NULL]
    /\ Consume("acap")
    /\ NoStop
    /\ UNCHANGED <<queues, accepted, delivered, poppedAtClose, nextItem, left,
                   duration_sec, sigPending, sigKill, closeLog, events>>

\* The loop test of video_encode_thread, h264_sink_thread, pcm_sink_thread.
consumer_loop(t) ==
    /\ At(t, "loop")
    /\ LoopTest(t, "call_pop")
    /\ NoStop
    /\ UNCHANGED <<qvars, nextItem, left, duration_sec, sigPending, sigKill,
                   closeLog, hold, events>>

\* r = bq_pop(queue, &item)
consumer_pop(t) ==
    /\ At(t, "call_pop")
    /\ PopPass(t, InputQueue(t), FALSE)
    /\ Goto(t, "pop")
    /\ NoStop
    /\ UNCHANGED <<nextItem, left, duration_sec, sigPending, sigKill, closeLog,
                   hold, events>>

\* r == 0: break.
consumer_terminal(t) ==
    /\ At(t, "pop")
    /\ call[t].st = "ret" /\ call[t].ret = 0
    /\ Goto(t, "done")
    /\ Consume(t)
    /\ NoStop
    /\ UNCHANGED <<queues, accepted, delivered, poppedAtClose, nextItem, left,
                   duration_sec, sigPending, sigKill, closeLog, hold, events>>

\* encoder_mpp_encode_packet on the popped frame.  It fails, gives no
\* packet, or the packet cannot be allocated: free_video_frame(vf),
\* continue.  Or a packet comes out: vf stays owned while ep goes to bq_push.
video_encode ==
    /\ At("venc", "pop")
    /\ call["venc"].st = "ret" /\ call["venc"].ret = 1
    /\ \/ Goto("venc", "loop") /\ UNCHANGED hold
       \/ /\ Goto("venc", "call_push")
          /\ hold' = [hold EXCEPT !["venc"] = call["venc"].out]
    /\ Consume("venc")
    /\ NoStop
    /\ UNCHANGED <<queues, accepted, delivered, poppedAtClose, nextItem, left,
                   duration_sec, sigPending, sigKill, closeLog, events>>

\* pr = bq_push(&g_h264_q, ep)
video_encode_push ==
    /\ At("venc", "call_push")
    /\ PushPass("venc", "h264", hold["venc"], FALSE)
    /\ Goto("venc", "push")
    /\ NoStop
    /\ UNCHANGED <<nextItem, left, duration_sec, sigPending, sigKill, closeLog,
                   hold, events>>

\* pr != 0: free_encoded_packet(ep); break, and vf is not freed on this path.
\* Otherwise the statistics, free_video_frame(vf) and the next iteration.
video_encode_pushed ==
    /\ At("venc", "push")
    /\ call["venc"].st = "ret"
    /\ IF call["venc"].ret # 0
       THEN Goto("venc", "done") /\ UNCHANGED hold
       ELSE Goto("venc", "loop") /\ hold' = [hold EXCEPT !["venc"] = NULL]
    /\ Consume("venc")
    /\ NoStop
    /\ UNCHANGED <<queues, accepted, delivered, poppedAtClose, nextItem, left,
                   duration_sec, sigPending, sigKill, closeLog, events>>

\* fwrite of the popped packet or chunk: everything is written, or less.
sink_write(t) ==
    /\ At(t, "pop")
    /\ call[t].st = "ret" /\ call[t].ret = 1
    /\ \/ Goto(t, "loop") /\ UNCHANGED events
       \/ events < MaxEvents /\ events' = events + 1 /\ Goto(t, "write_failed")
    /\ Consume(t)
    /\ NoStop
    /\ UNCHANGED <<queues, accepted, delivered, poppedAtClose, nextItem, left,
                   duration_sec, sigPending, sigKill, closeLog, hold>>

sink_write_failed_no_stop(t) ==
    /\ At(t, "write_failed")
    /\ NoStop
    /\ Goto(t, "loop")
    /\ UNCHANGED <<qvars, nextItem, left, duration_sec, sigPending, sigKill,
                   closeLog, hold, events>>

\* w != size: request_stop(); the item is freed and the loop goes on.
sink_write_failed(t) ==
    /\ At(t, "write_failed")
    /\ RequestStop(t)
    /\ Goto(t, "loop")
    /\ UNCHANGED <<qvars, nextItem, left, duration_sec, sigPending, sigKill,
                   closeLog, hold, events>>

(***************************************************************************)
(* stats_thread, signal_thread, timer_thread                               *)
(***************************************************************************)
\* while (!should_stop()) { sleep(1); print; bq_size x3; the PTS gauges }
stats_loop ==
    /\ At("stat", "loop")
    /\ LoopTest("stat", "loop")
    /\ NoStop
    /\ UNCHANGED <<qvars, nextItem, left, duration_sec, sigPending, sigKill,
                   closeLog, hold, events>>

\* sigwait returns with a pending INT/TERM, which it consumes; request_stop().
signal_wait ==
    /\ At("sig", "sigwait")
    /\ \/ sigPending /\ sigPending' = FALSE /\ UNCHANGED sigKill
       \/ sigKill /\ sigKill' = FALSE /\ UNCHANGED sigPending
    /\ RequestStop("sig")
    /\ Goto("sig", "done")
    /\ UNCHANGED <<qvars, nextItem, left, duration_sec, closeLog, hold, events>>

timer_loop_ignores_stop ==
    /\ At("timer", "loop")
    /\ IF left > 0
       THEN left' = left - 1 /\ Goto("timer", IF left' > 0 THEN "loop" ELSE "check")
       ELSE Goto("timer", "check") /\ UNCHANGED left
    /\ NoStop
    /\ UNCHANGED <<qvars, nextItem, duration_sec, sigPending, sigKill, closeLog,
                   hold, events>>

\* while (!should_stop() && left > 0) { sleep(1); left--; }
\* With left == 0 the test fails whatever should_stop() gives.
timer_loop ==
    /\ At("timer", "loop")
    /\ IF ~should_stop /\ left > 0
       THEN left' = left - 1 /\ Goto("timer", IF left' > 0 THEN "loop" ELSE "check")
       ELSE Goto("timer", "check") /\ UNCHANGED left
    /\ NoStop
    /\ UNCHANGED <<qvars, nextItem, duration_sec, sigPending, sigKill, closeLog,
                   hold, events>>

\* if (!should_stop()) ...
timer_check ==
    /\ At("timer", "check")
    /\ Goto("timer", IF should_stop THEN "done" ELSE "stop")
    /\ NoStop
    /\ UNCHANGED <<qvars, nextItem, left, duration_sec, sigPending, sigKill,
                   closeLog, hold, events>>

\* ... request_stop();
timer_stop ==
    /\ At("timer", "stop")
    /\ RequestStop("timer")
    /\ Goto("timer", "done")
    /\ UNCHANGED <<qvars, nextItem, left, duration_sec, sigPending, sigKill,
                   closeLog, hold, events>>

\* An INT or TERM is sent to the process while signal_thread is in sigwait
\* (all threads block both signals, so a later one stays pending unseen).
ExternalSignal ==
    /\ At("sig", "sigwait")
    /\ ~sigPending
    /\ events < MaxEvents
    /\ events' = events + 1
    /\ sigPending' = TRUE
    /\ NoStop
    /\ UNCHANGED <<qvars, pc, nextItem, left, duration_sec, sigKill, closeLog, hold>>

(***************************************************************************)
(* main(): pthread_create x8 (the timer only if duration_sec > 0), the     *)
(* joins in their order, request_stop(), pthread_kill, bq_destroy x3.      *)
(***************************************************************************)
MainOrderDestroyEarly ==
    << "create",
       "j_vcap", "j_acap", "j_venc", "j_h264sink", "j_pcmsink",
       "d_raw", "d_h264", "d_aud",
       "stop", "j_stat", "kill", "j_sig", "j_timer", "done" >>

MainOrder ==
    << "create",
       "j_vcap", "j_acap", "j_venc", "j_h264sink", "j_pcmsink",
       "stop", "j_stat", "kill", "j_sig", "j_timer",
       "d_raw", "d_h264", "d_aud", "done" >>

MainNext(l) ==
    LET i == CHOOSE k \in 1..Len(MainOrder) : MainOrder[k] = l
    IN  MainOrder[i + 1]

Joins == [j_vcap |-> "vcap", j_acap |-> "acap", j_venc |-> "venc",
          j_h264sink |-> "h264sink", j_pcmsink |-> "pcmsink",
          j_stat |-> "stat", j_sig |-> "sig", j_timer |-> "timer"]

Destroys == [d_raw |-> "raw", d_h264 |-> "h264", d_aud |-> "aud"]

\* Where a thread function starts.
StartPc(w) ==
    CASE w \in Stages -> "open"
      [] w = "sig"    -> "sigwait"
      [] OTHER        -> "loop"

\* The timer thread exists only if (cfg.duration_sec > 0).
Started(w) == w # "timer" \/ duration_sec > 0

\* The eight pthread_create calls.  A created thread that has not run yet
\* is seen by nobody, so the calls are one step.
main_create ==
    /\ At("main", "create")
    /\ pc' = [t \in Threads |->
                IF t = "main" THEN MainNext("create")
                ELSE IF Started(t) THEN StartPc(t) ELSE pc[t]]
    /\ left' = duration_sec
    /\ NoStop
    /\ UNCHANGED <<qvars, nextItem, duration_sec, sigPending, sigKill, closeLog,
                   hold, events>>

main_join ==
    /\ pc["main"] \in DOMAIN Joins
    /\ rs["main"] = "no"
    /\ LET w == Joins[pc["main"]]
       IN  Started(w) => Terminated(w)
    /\ Goto("main", MainNext(pc["main"]))
    /\ NoStop
    /\ UNCHANGED <<qvars, nextItem, left, duration_sec, sigPending, sigKill,
                   closeLog, hold, events>>

main_request_stop ==
    /\ At("main", "stop")
    /\ RequestStop("main")
    /\ Goto("main", MainNext("stop"))
    /\ UNCHANGED <<qvars, nextItem, left, duration_sec, sigPending, sigKill,
                   closeLog, hold, events>>

main_kill_nothing ==
    /\ At("main", "kill")
    /\ Goto("main", MainNext("kill"))
    /\ NoStop
    /\ UNCHANGED <<qvars, nextItem, left, duration_sec, sigPending, sigKill,
                   closeLog, hold, events>>

\* pthread_kill(th_sig, SIGTERM)
main_kill ==
    /\ At("main", "kill")
    /\ sigKill' = TRUE
    /\ Goto("main", MainNext("kill"))
    /\ NoStop
    /\ UNCHANGED <<qvars, nextItem, left, duration_sec, sigPending, closeLog,
                   hold, events>>

\* bq_destroy: items = NULL; free; memset(q, 0, sizeof(*q))
bq_destroy(q) ==
    [ items     |-> << >>,
      capacity  |-> 0,
      size      |-> 0,
      head      |-> 0,
      tail      |-> 0,
      closed    |-> 0,
      not_empty |-> {},
      not_full  |-> {} ]

main_destroy ==
    /\ pc["main"] \in DOMAIN Destroys
    /\ rs["main"] = "no"
    /\ queues' = [queues EXCEPT ![Destroys[pc["main"]]] = bq_destroy(@)]
    /\ Goto("main", MainNext(pc["main"]))
    /\ NoStop
    /\ UNCHANGED <<call, accepted, delivered, poppedAtClose, nextItem, left,
                   duration_sec, sigPending, sigKill, closeLog, hold, events>>

(***************************************************************************)
(* Specification PipeSpec                                                  *)
(***************************************************************************)
PipeInit ==
    /\ queues = [qid \in QueueIds |-> bq_init(PipeCap)]
    /\ call = [t \in Threads |-> IdleCall]
    /\ pc = [t \in Threads |-> IF t = "main" THEN "create" ELSE "unborn"]
    /\ g_stop = 0
    /\ nextItem = 1
    /\ accepted = << >>
    /\ delivered = << >>
    /\ poppedAtClose = << >>
    /\ rs = [t \in Threads |-> "no"]
    /\ left = 0
    /\ duration_sec \in 0..MaxSec
    /\ sigPending = FALSE
    /\ sigKill = FALSE
    /\ stopWins = 0
    /\ closeLog = <<>>
    /\ stopLost = FALSE
    /\ hold = [t \in Threads |-> NULL]
    /\ events = 0
    /\ LayerIdle

\* A step of the stage t.
StageStep(t) ==
    \/ stage_open(t)
    \/ stage_open_failed(t)
    \/ t \in {"vcap", "acap"} /\ capture_grab(t)
    \/ t = "vcap" /\ (video_capture_push \/ video_capture_pushed)
    \/ t = "acap" /\ (audio_capture_push \/ audio_capture_pushed)
    \/ t = "venc" /\ (video_encode \/ video_encode_push \/ video_encode_pushed)
    \/ t \in Sinks /\ (sink_write(t) \/ sink_write_failed(t))
    \/ t \in Sinks \cup {"venc"} /\ (consumer_loop(t) \/ consumer_pop(t)
                                       \/ consumer_terminal(t))

\* A step of thread t.
ThreadStep(t) ==
    \/ request_stop_close(t)
    \/ bq_push_resume(t)
    \/ bq_pop_resume(t)
    \/ t \in Stages /\ StageStep(t)
    \/ t = "stat" /\ stats_loop
    \/ t = "sig" /\ signal_wait
    \/ t = "timer" /\ (timer_loop \/ timer_check \/ timer_stop)
    \/ t = "main" /\ (main_create \/ main_join \/ main_request_stop
                        \/ main_kill \/ main_destroy)

(***************************************************************************)
(* Scheduling.  A step commutes with every step of every other thread when *)
(* it is thread-local, when the only shared access in it is to g_stop and  *)
(* g_stop is already 1 (it never changes again), when it is a critical     *)
(* section of a closed queue (nothing enters a closed queue and each queue *)
(* has one consumer), or when it is a join whose thread has ended.  The    *)
(* order of commuting steps does not matter, so a thread at such a step    *)
(* runs before the others, one thread at a time.                           *)
(***************************************************************************)
LocalStep(t) ==
    \/ pc[t] = "open"
    \/ pc[t] \in {"push", "pop"} /\ call[t].st = "ret"

StopStep(t) ==
    /\ should_stop
    /\ pc[t] \in {"loop", "open_failed", "write_failed", "check", "stop"}

ClosedQueueStep(t) ==
    \/ pc[t] = "call_push" /\ queues[OutputQueue(t)].closed # 0
    \/ pc[t] = "call_pop" /\ queues[InputQueue(t)].closed # 0
    \/ call[t].st = "woken" /\ queues[call[t].q].closed # 0

Commuting(t) ==
    /\ rs[t] = "no"
    /\ LocalStep(t) \/ StopStep(t) \/ ClosedQueueStep(t) \/ pc[t] \in DOMAIN Joins
    /\ ENABLED ThreadStep(t)

\* The thread that runs first, if some thread is at a commuting step.
Runnable ==
    LET C == {u \in Threads : Commuting(u)}
    IN  IF C = {} THEN Threads ELSE {CHOOSE u \in C : TRUE}

Scheduled(t) == t \in Runnable

Quiet == \A u \in Threads : ~Commuting(u)

PipeNext ==
    \/ \E t \in Runnable : ThreadStep(t) /\ UNCHANGED layerVars
    \/ \E t \in Threads : SpuriousWakeup(t) /\ Quiet
    \/ ExternalSignal /\ Quiet /\ UNCHANGED layerVars

PipeSpec == PipeInit /\ [][PipeNext]_vars

\* A thread that can take a step does not wait for ever to take it: the
\* kernel runs every runnable thread.  Spurious wake-ups and signals from
\* outside are not promised.
FairPipeSpec ==
    PipeSpec /\ \A t \in Threads :
        WF_vars(ThreadStep(t) /\ UNCHANGED layerVars)

(***************************************************************************)
(* Specification StartSpec: main() from its first line, with the startup   *)
(* steps that can fail (the arguments, bq_init, pthread_create), the exit  *)
(* status of the process, and the pipeline as in PipeSpec.                 *)
(***************************************************************************)
\* The order of the pthread_create calls.
CreateOrder ==
    <<"sig", "timer", "stat", "vcap", "venc", "acap", "h264sink", "pcmsink">>

CreateIndex(w) == CHOOSE i \in 1..Len(CreateOrder) : CreateOrder[i] = w

\* The order of the bq_init calls.
InitOrder == <<"raw", "h264", "aud">>

\* A static BQueue before bq_init: all fields zero, as after bq_destroy.
ZeroQueue == bq_destroy(NULL)

\* app_config_parse_args: it returns 0; or -1 (--size does not parse, width
\* or height <= 0) and main() returns -1; or it prints the usage and calls
\* exit(0), for -h and for an option it does not know.
main_parse_args ==
    /\ At("main", "args")
    /\ \/ Goto("main", "init") /\ UNCHANGED startVars
       \/ /\ Goto("main", "exited")
          /\ exit_code' = -1
          /\ startup_failure' = "args"
          /\ UNCHANGED uncreated
       \/ /\ Goto("main", "exited")
          /\ exit_code' = 0
          /\ startup_failure' \in {"none", "args"}
          /\ UNCHANGED uncreated
    /\ NoStop
    /\ UNCHANGED <<qvars, nextItem, left, duration_sec, sigPending, sigKill,
                   closeLog, hold, events>>

\* if (bq_init(&g_raw_vq, 8) != 0 || bq_init(&g_h264_q, 64) != 0 ||
\*     bq_init(&g_aud_q, 256) != 0) return -1;
main_queue_init ==
    /\ At("main", "init")
    /\ \/ /\ queues' = [qid \in QueueIds |-> bq_init(PipeCap)]
          /\ Goto("main", "create")
          /\ UNCHANGED startVars
       \/ \E k \in 1..Len(InitOrder) :
          /\ queues' = [qid \in QueueIds |->
                           IF \E i \in 1..(k - 1) : InitOrder[i] = qid
                           THEN bq_init(PipeCap) ELSE queues[qid]]
          /\ Goto("main", "exited")
          /\ exit_code' = -1
          /\ startup_failure' = "init"
          /\ UNCHANGED uncreated
    /\ NoStop
    /\ UNCHANGED <<call, accepted, delivered, poppedAtClose, nextItem, left,
                   duration_sec, sigPending, sigKill, closeLog, hold, events>>

\* The pthread_create of thread f fails.  For the signal thread main()
\* returns -1; for another one it calls request_stop() and goes on.  The
\* threads created before f run from here.
main_create_failing ==
    /\ At("main", "create")
    /\ events < MaxEvents
    /\ events' = events + 1
    /\ \E f \in {w \in Workers : Started(w)} :
          IF f = "sig"
          THEN /\ Goto("main", "exited")
               /\ exit_code' = -1
               /\ startup_failure' = "create"
               /\ UNCHANGED <<uncreated, left>>
          ELSE /\ pc' = [t \in Threads |->
                           IF t = "main" THEN "create_stop"
                           ELSE IF Started(t) /\ CreateIndex(t) < CreateIndex(f)
                                THEN StartPc(t) ELSE pc[t]]
               /\ uncreated' = f
               /\ startup_failure' = "create"
               /\ left' = duration_sec
               /\ UNCHANGED exit_code
    /\ NoStop
    /\ UNCHANGED <<qvars, nextItem, duration_sec, sigPending, sigKill, closeLog, hold>>

\* ... LOGE(...); request_stop();
main_create_stop ==
    /\ At("main", "create_stop")
    /\ RequestStop("main")
    /\ Goto("main", "create_rest")
    /\ UNCHANGED <<qvars, nextItem, left, duration_sec, sigPending, sigKill,
                   closeLog, hold, events, startVars>>

\* The pthread_create calls that follow the failed one.
main_create_rest ==
    /\ At("main", "create_rest")
    /\ pc' = [t \in Threads |->
                IF t = "main" THEN "j_vcap"
                ELSE IF Started(t) /\ CreateIndex(t) > CreateIndex(uncreated)
                     THEN StartPc(t) ELSE pc[t]]
    /\ NoStop
    /\ UNCHANGED <<qvars, nextItem, left, duration_sec, sigPending, sigKill,
                   closeLog, hold, events, startVars>>

\* pthread_join on the pthread_t that the failed pthread_create left
\* uninitialised is undefined: the call returns an error at once, or the
\* process is killed by SIGSEGV (or the call never returns, which is no step).
join_uncreated ==
    /\ pc["main"] \in DOMAIN Joins
    /\ rs["main"] = "no"
    /\ Joins[pc["main"]] = uncreated
    /\ \/ Goto("main", MainNext(pc["main"])) /\ UNCHANGED startVars
       \/ /\ Goto("main", "crashed")
          /\ exit_code' = 128 + 11
          /\ UNCHANGED <<startup_failure, uncreated>>
    /\ NoStop
    /\ UNCHANGED <<qvars, nextItem, left, duration_sec, sigPending, sigKill,
                   closeLog, hold, events>>

\* What a step of the pipeline does to the exit status and to the history of
\* failures: return 0 at the end of main(), and a stage that returns after
\* its device, encoder or file could not be opened.
StartLayer ==
    /\ exit_code' = IF pc["main"] = "d_aud" /\ pc'["main"] = "done"
                    THEN 0 ELSE exit_code
    /\ startup_failure' =
          IF /\ startup_failure = "none"
             /\ \E t \in Stages : pc[t] = "open_failed" /\ pc'[t] = "done"
          THEN "open" ELSE startup_failure
    /\ UNCHANGED <<uncreated, dataVars>>

\* The process has not been killed.
Alive == pc["main"] # "crashed"

StartInit ==
    /\ queues = [qid \in QueueIds |-> ZeroQueue]
    /\ call = [t \in Threads |-> IdleCall]
    /\ pc = [t \in Threads |-> IF t = "main" THEN "args" ELSE "unborn"]
    /\ g_stop = 0
    /\ nextItem = 1
    /\ accepted = << >>
    /\ delivered = << >>
    /\ poppedAtClose = << >>
    /\ rs = [t \in Threads |-> "no"]
    /\ left = 0
    /\ duration_sec \in 0..MaxSec
    /\ sigPending = FALSE
    /\ sigKill = FALSE
    /\ stopWins = 0
    /\ closeLog = <<>>
    /\ stopLost = FALSE
    /\ hold = [t \in Threads |-> NULL]
    /\ events = 0
    /\ LayerIdle

StartNext ==
    \/ \E t \in Runnable : Alive /\ ThreadStep(t) /\ StartLayer
    \/ \E t \in Threads : Alive /\ SpuriousWakeup(t) /\ Quiet
    \/ Alive /\ ExternalSignal /\ Quiet /\ UNCHANGED layerVars
    \/ main_parse_args /\ Quiet /\ UNCHANGED dataVars
    \/ main_queue_init /\ Quiet /\ UNCHANGED dataVars
    \/ main_create_failing /\ Quiet /\ UNCHANGED dataVars
    \/ main_create_stop /\ Quiet /\ UNCHANGED dataVars
    \/ main_create_rest /\ Quiet /\ UNCHANGED dataVars
    \/ join_uncreated /\ Quiet /\ UNCHANGED dataVars

StartSpec == StartInit /\ [][StartNext]_vars

(***************************************************************************)
(* Properties of the pipeline                                              *)
(***************************************************************************)
CloseOrder == <<"raw", "h264", "aud">>

\* Thread t makes the atomic_exchange of a request_stop call.
StopCall(t) ==
    \/ stage_open_failed(t)
    \/ sink_write_failed(t)
    \/ t = "sig" /\ signal_wait
    \/ t = "timer" /\ timer_stop
    \/ t = "main" /\ main_request_stop

\* The closed flag of some queue changes.
ClosedChanges == \E qid \in QueueIds : queues'[qid].closed # queues[qid].closed

\* C9: however many request_stop calls race or repeat, exactly one of them
\* sees g_stop go from 0 to 1; the bq_close calls are made inside that call
\* only, once each and in the order raw, h264, aud, and they are all made when
\* it returns; a call that finds g_stop already 1 touches no queue; and g_stop,
\* once 1, stays 1.
C9_StopOnce ==
    /\ [](/\ stopWins <= 1
          /\ (g_stop = 1) <=> (stopWins = 1)
          /\ Cardinality({t \in Threads : rs[t] # "no"}) <= 1
          /\ IsPrefix(closeLog, CloseOrder)
          /\ closeLog # << >> => stopWins = 1
          /\ (stopWins = 1 /\ \A t \in Threads : rs[t] = "no") => closeLog = CloseOrder)
    /\ [][g_stop = 1 => g_stop' = 1]_vars
    /\ [][\A t \in Threads :
            (g_stop = 1 /\ StopCall(t)) =>
                /\ rs'[t] = "no"
                /\ queues' = queues
                /\ closeLog' = closeLog]_vars
    /\ [][ClosedChanges =>
            \/ \E t \in Threads : rs[t] # "no" /\ request_stop_close(t)
            \/ main_destroy]_vars

\* Witness of C9: one call has won, another call has found g_stop already 1
\* and returned, and the winner has made two of its three closes.
C9_Witness ==
    /\ stopWins = 1
    /\ stopLost
    /\ closeLog = <<"raw", "h264">>
    /\ \E t \in Threads : rs[t] = "aud"

Consumers == Sinks \cup {"venc"}

\* The labels inside the loop of a stage.
InLoop == {"loop", "call_pop", "pop", "call_push", "push", "write_failed"}

\* Stage t leaves its loop in this step.
LeavesLoop(t) == pc[t] \in InLoop /\ pc'[t] = "done"

\* C11: VideoEncode, H264Sink and PcmSink leave their loop only when bq_pop on
\* their input queue has returned the terminal value 0, so the input queue is
\* empty at the moment the stage leaves, also after a stop that a failed
\* fwrite of a sink has requested.
C11_DrainsInput ==
    [][\A t \in Consumers :
          LeavesLoop(t) =>
             /\ consumer_terminal(t)
             /\ queues'[InputQueue(t)].size = 0]_vars

\* C13: when main() comes to the first bq_destroy, each of the three queues
\* has size 0 and no stage still owns a frame, packet or chunk: every item a
\* queue accepted has been popped and released.
C13_NoLeakAtDestroy ==
    pc["main"] = "d_raw" =>
        /\ \A qid \in QueueIds : queues[qid].size = 0
        /\ \A t \in Threads : hold[t] = NULL

\* pthread_create has made thread w.
Created(w) == Started(w) /\ w # uncreated /\ pc["main"] \notin {"args", "init", "create"}

\* main() is at one of the three bq_destroy calls or past them.
Destroying == pc["main"] \in DOMAIN Destroys \cup {"done"}

\* C14: bq_destroy does not race: when main() is at the bq_destroy calls or
\* past them, every worker that was created has returned, is outside every
\* queue operation and outside request_stop (none of its bq_close calls is
\* still to come), and from then on no worker takes a step at all; a worker
\* that was not created never runs.
C14_DestroyAfterJoin ==
    /\ [](Destroying =>
            \A w \in Workers :
                /\ call[w].st \notin {"wait", "woken"}
                /\ rs[w] = "no"
                /\ IF Created(w) THEN pc[w] = "done" ELSE pc[w] = "unborn")
    /\ [][Destroying =>
            \A w \in Workers : pc'[w] = pc[w] /\ call'[w] = call[w] /\ rs'[w] = rs[w]]_vars
    /\ [][(\E qid \in QueueIds : queues'[qid] # queues[qid] /\ ~main_destroy
                                  /\ pc["main"] # "init")
            => ~Destroying]_vars

\* Witness of C14: all eight workers were created (a timer among them), the
\* stop has been made, all of them have returned, and main() has destroyed
\* g_raw_vq and is at the second bq_destroy.
C14_Witness ==
    /\ pc["main"] = "d_h264"
    /\ queues["raw"].capacity = 0
    /\ uncreated = NoThread
    /\ duration_sec > 0
    /\ stopWins = 1
    /\ \A w \in Workers : Terminated(w)

\* C15: the exit status is 0 when the run succeeded and non-zero after every
\* startup failure: arguments that are not accepted, a bq_init that fails, a
\* device, encoder or output file that a stage cannot open.
C15_ExitCode ==
    exit_code # NoExit =>
        /\ startup_failure = "none" => exit_code = 0
        /\ startup_failure \in {"args", "init", "open"} => exit_code # 0

(***************************************************************************)
(* Specification PtsSpec: the time stamps.  video_capture_thread stamps    *)
(* each frame with the monotonic clock, video_encode_thread copies the     *)
(* stamp into the packet, audio_capture_thread anchors its pts_us once and *)
(* advances it by the frames of each chunk; the sinks read the stamps of   *)
(* what they pop.  The devices do not fail in these runs and the timer     *)
(* ends them.  What the raw queue delivers and the h264 queue accepts is   *)
(* recorded.                                                               *)
(***************************************************************************)
\* What audio_capture_read gives: n / ac.bytes_per_frame.
FrameCounts == {160, 441}

\* cfg.sample_rate
SampleRates == {44100, 48000}

\* Thread t goes from label from to label to of its function.
Moves(t, from, to) == rs[t] = "no" /\ pc[t] = from /\ pc'[t] = to

ClockReadingsAny(prev) == 0..MaxClock

\* rkav_now_monotonic_us(): CLOCK_MONOTONIC, in microseconds; a reading is
\* not below an earlier one.
ClockReadings(prev) == prev..MaxClock

AdvancePtsRoundUp(pts, frames, sr) == pts + (frames * 1000000 + sr - 1) \div sr

\* pts_us += (uint64_t)frames * 1000000ULL / (uint64_t)ac.sample_rate;
AdvancePts(pts, frames, sr) == pts + (frames * 1000000) \div sr

InheritedPtsNow(vf) == now

\* ep->pts_us = vf->pts_us;
InheritedPts(vf) == pts_us[vf]

\* uint64_t pts_us = rkav_now_monotonic_us(); ... vf->pts_us = pts_us;
video_capture_stamp ==
    /\ \E r \in ClockReadings(now) :
          /\ now' = r
          /\ pts_us' = (hold'["vcap"] :> r) @@ pts_us
    /\ UNCHANGED <<audio_pts, frames_log, pts_log>>

\* uint64_t pts_us = rkav_now_monotonic_us(); after audio_capture_open.
audio_capture_anchor ==
    /\ \E r \in 0..MaxClock :
          /\ audio_pts' = r
          /\ pts_log' = <<r>>
    /\ UNCHANGED <<now, pts_us, frames_log>>

\* chunk->frames = frames; chunk->pts_us = pts_us; pts_us += ...
audio_capture_stamp ==
    /\ \E f \in FrameCounts :
          /\ frames_log' = Append(frames_log, f)
          /\ audio_pts' = AdvancePts(audio_pts, f, sample_rate)
    /\ pts_us' = (hold'["acap"] :> audio_pts) @@ pts_us
    /\ pts_log' = Append(pts_log, audio_pts')
    /\ UNCHANGED now

\* The stamp of the item sink t has popped: pkt->pts_us, chunk->pts_us.
PoppedPts(t) ==
    IF t = "h264sink" THEN ep_pts_us[call[t].out] ELSE pts_us[call[t].out]

\* Sink t has popped an item and goes on to write it.
SinkTakes(t) == Moves(t, "pop", "loop") \/ Moves(t, "pop", "write_failed")

\* What a step of the pipeline does to the time stamps.
PtsLayer ==
    /\ IF Moves("vcap", "loop", "call_push") THEN video_capture_stamp
       ELSE IF Moves("acap", "open", "loop") THEN audio_capture_anchor
       ELSE IF Moves("acap", "loop", "call_push") THEN audio_capture_stamp
       ELSE UNCHANGED <<now, pts_us, audio_pts, frames_log, pts_log>>
    /\ ep_pts_us' =
          IF Moves("venc", "pop", "call_push")
          THEN (call["venc"].out :> InheritedPts(call["venc"].out)) @@ ep_pts_us
          ELSE ep_pts_us
    /\ sunk' = [t \in Sinks |->
                  IF SinkTakes(t) THEN Append(sunk[t], PoppedPts(t)) ELSE sunk[t]]
    /\ UNCHANGED sample_rate

PtsInit ==
    /\ queues = [qid \in QueueIds |-> bq_init(PipeCap)]
    /\ call = [t \in Threads |-> IdleCall]
    /\ pc = [t \in Threads |-> IF t = "main" THEN "create" ELSE "unborn"]
    /\ g_stop = 0
    /\ nextItem = 1
    /\ accepted = [h264 |-> << >>]
    /\ delivered = [raw |-> << >>]
    /\ poppedAtClose = << >>
    /\ rs = [t \in Threads |-> "no"]
    /\ left = 0
    /\ duration_sec = 1
    /\ sigPending = FALSE
    /\ sigKill = FALSE
    /\ stopWins = 0
    /\ closeLog = <<>>
    /\ stopLost = FALSE
    /\ hold = [t \in Threads |-> NULL]
    /\ events = MaxEvents
    /\ StartIdle
    /\ feeds \in {{"vcap"}, {"acap"}}
    /\ lastItem = MediaItems
    /\ now = 0
    /\ pts_us = << >>
    /\ ep_pts_us = << >>
    /\ sunk = [h264sink |-> << >>, pcmsink |-> << >>]
    /\ audio_pts = 0
    /\ sample_rate \in IF "acap" \in feeds THEN SampleRates ELSE {48000}
    /\ frames_log = << >>
    /\ pts_log = << >>
    /\ StatIdle
    /\ SeqIdle
    /\ AuxIdle

PtsNext ==
    \/ \E t \in Runnable :
          ThreadStep(t) /\ PtsLayer
              /\ UNCHANGED <<startVars, feedVars, statVars, seqVars, auxVars>>
    \/ \E t \in Threads : SpuriousWakeup(t) /\ Quiet

PtsSpec == PtsInit /\ [][PtsNext]_vars

(***************************************************************************)
(* Specification StatSpec: the counters of the video path.  The devices do *)
(* not fail and the timer ends the run, as in PtsSpec; the encoder may     *)
(* fail on a frame or give no packet for it.                               *)
(***************************************************************************)
StatItems == 4

\* av_stats_add_drop(&g_stats, n): atomic_fetch_add on drop_count.
av_stats_add_drop(n) == drop_count' = drop_count + n

\* video_capture_thread after bq_try_push: if (pr == 1) av_stats_add_drop(1).
video_capture_count ==
    av_stats_add_drop(IF call["vcap"].ret = 1 THEN 1 ELSE 0)

video_encode_count_nothing ==
    /\ venc_popped' = venc_popped + 1
    /\ UNCHANGED <<drop_count, venc_drops, no_packet, video_frames, refused>>

video_encode_count_unpushed_always ==
    /\ venc_popped' = venc_popped + 1
    /\ av_stats_add_drop(1)
    /\ \/ venc_drops' = venc_drops + 1 /\ UNCHANGED no_packet
       \/ no_packet' = no_packet + 1 /\ UNCHANGED venc_drops
    /\ UNCHANGED <<video_frames, refused>>

video_encode_count_unpushed_twice ==
    /\ venc_popped' = venc_popped + 1
    /\ \/ av_stats_add_drop(2) /\ venc_drops' = venc_drops + 1 /\ UNCHANGED no_packet
       \/ no_packet' = no_packet + 1 /\ UNCHANGED <<drop_count, venc_drops>>
    /\ UNCHANGED <<video_frames, refused>>

\* video_encode_thread with the popped frame and no packet to push: er != 0
\* or calloc of the packet failed, av_stats_add_drop(1); or the encoder gave
\* no packet and nothing is counted.
video_encode_count_unpushed ==
    /\ venc_popped' = venc_popped + 1
    /\ \/ av_stats_add_drop(1) /\ venc_drops' = venc_drops + 1 /\ UNCHANGED no_packet
       \/ no_packet' = no_packet + 1 /\ UNCHANGED <<drop_count, venc_drops>>
    /\ UNCHANGED <<video_frames, refused>>

\* video_encode_thread with a packet for the popped frame.
video_encode_count_packet ==
    /\ venc_popped' = venc_popped + 1
    /\ UNCHANGED <<drop_count, venc_drops, no_packet, video_frames, refused>>

\* video_encode_thread after bq_push: if (pr != 0) break; otherwise
\* av_stats_inc_video_frame.
video_encode_count_pushed ==
    /\ IF call["venc"].ret # 0
       THEN refused' = refused + 1 /\ UNCHANGED video_frames
       ELSE video_frames' = video_frames + 1 /\ UNCHANGED refused
    /\ UNCHANGED <<drop_count, venc_drops, venc_popped, no_packet>>

\* What a step of the pipeline does to the counters.
StatLayer ==
    IF rs["vcap"] = "no" /\ pc["vcap"] = "push" /\ pc'["vcap"] # "push"
    THEN video_capture_count
         /\ UNCHANGED <<video_frames, venc_drops, venc_popped, no_packet, refused>>
    ELSE IF Moves("venc", "pop", "loop") THEN video_encode_count_unpushed
    ELSE IF Moves("venc", "pop", "call_push") THEN video_encode_count_packet
    ELSE IF rs["venc"] = "no" /\ pc["venc"] = "push" /\ pc'["venc"] # "push"
    THEN video_encode_count_pushed
    ELSE UNCHANGED statVars

StatInit ==
    /\ queues = [qid \in QueueIds |-> bq_init(PipeCap)]
    /\ call = [t \in Threads |-> IdleCall]
    /\ pc = [t \in Threads |-> IF t = "main" THEN "create" ELSE "unborn"]
    /\ g_stop = 0
    /\ nextItem = 1
    /\ accepted = << >>
    /\ delivered = << >>
    /\ poppedAtClose = << >>
    /\ rs = [t \in Threads |-> "no"]
    /\ left = 0
    /\ duration_sec = 1
    /\ sigPending = FALSE
    /\ sigKill = FALSE
    /\ stopWins = 0
    /\ closeLog = <<>>
    /\ stopLost = FALSE
    /\ hold = [t \in Threads |-> NULL]
    /\ events = MaxEvents
    /\ StartIdle
    /\ feeds = {"vcap"}
    /\ lastItem = StatItems
    /\ PtsIdle
    /\ StatIdle
    /\ SeqIdle
    /\ AuxIdle

StatNext ==
    \/ \E t \in Runnable :
          ThreadStep(t) /\ StatLayer
              /\ UNCHANGED <<startVars, feedVars, ptsVars, seqVars, auxVars>>
    \/ \E t \in Threads : SpuriousWakeup(t) /\ Quiet

StatSpec == StatInit /\ [][StatNext]_vars

RECURSIVE SumFrames(_)
SumFrames(k) == IF k = 0 THEN 0 ELSE SumFrames(k - 1) + frames_log[k]

\* The sum of the advances made chunk by chunk, each one rounded down.
RECURSIVE SumAdvances(_)
SumAdvances(k) ==
    IF k = 0 THEN 0
    ELSE SumAdvances(k - 1) + (frames_log[k] * 1000000) \div sample_rate

\* floor((f_0 + ... + f_{k-1}) * 1000000 / sample_rate)
TotalAdvance(k) == (SumFrames(k) * 1000000) \div sample_rate

\* pts_log[k + 1] is pts[k]: the stamp chunk k gets, once k chunks are made.
Anchored == Len(pts_log) > 0

\* C17 as stated: after k chunks with frame counts f_0..f_{k-1}, the PTS of
\* chunk k is pts[0] + (f_0 + ... + f_{k-1}) * 1000000 / sample_rate with one
\* integer division of the total, for every k and every frame counts.
C17_PtsFromTotal ==
    Anchored =>
        \A k \in 0..Len(frames_log) :
            pts_log[k + 1] = pts_log[1] + TotalAdvance(k)

\* C17, amended: the division is made chunk by chunk.  After k chunks the
\* PTS of chunk k is pts[0] plus the sum of floor(f_i * 1000000 /
\* sample_rate); it is at most pts[0] + floor(sum(f_i) * 1000000 /
\* sample_rate) and falls short of it by less than k microseconds.  Chunk k
\* carries pts[k] in its pts_us field.
C17_PtsPerChunk ==
    Anchored =>
        /\ Len(pts_log) = Len(frames_log) + 1
        /\ audio_pts = pts_log[Len(pts_log)]
        /\ \A k \in 0..Len(frames_log) :
              /\ pts_log[k + 1] = pts_log[1] + SumAdvances(k)
              /\ pts_log[k + 1] <= pts_log[1] + TotalAdvance(k)
              /\ k > 0 => pts_log[k + 1] > pts_log[1] + TotalAdvance(k) - k
              /\ k < Len(frames_log) => pts_us[k + 1] = pts_log[k + 1]

\* Two chunks of 441 frames at 48000 Hz: each advance is floor(9187.5), the
\* running pts_us is one microsecond behind the division of the total, and
\* the PCM sink has popped both chunks.
C17_Witness ==
    /\ sample_rate = 48000
    /\ frames_log = <<441, 441>>
    /\ audio_pts = pts_log[1] + 18374
    /\ TotalAdvance(2) = 18375
    /\ sunk["pcmsink"] = <<pts_log[1], pts_log[1] + 9187>>

(***************************************************************************)
(* Properties of the counters                                              *)
(***************************************************************************)
\* The frame video_encode_thread has popped and whose packet is on its way
\* into Q_h264: it is counted once bq_push has returned.
InFlight == IF pc["venc"] \in {"call_push", "push"} THEN 1 ELSE 0

\* C18 as stated: summed over all windows, the video_frames increments plus
\* the drop_count increments made by VideoEncode equal the number of frames
\* VideoEncode popped from Q_raw, ignoring the frames for which the encoder
\* returned zero packets.
C18_CountersConserved ==
    Terminated("venc") => video_frames + venc_drops = venc_popped - no_packet

\* C18, amended: the frame whose packet bq_push refused (Q_h264 closed) is
\* counted in neither counter.  video_frames plus VideoEncode's drop_count
\* increments equal the frames popped minus the zero-packet frames, minus the
\* frame in flight, minus the refused one; at most one frame is refused, and
\* VideoEncode ends with it.
C18_CountersConservedButRefused ==
    /\ video_frames + venc_drops = venc_popped - no_packet - InFlight - refused
    /\ refused <= 1
    /\ refused = 1 => pc["venc"] = "done"
    /\ venc_drops <= drop_count

\* VideoEncode has ended on a refused push after one frame of each kind: one
\* counted in video_frames, one dropped, one without a packet.
C18_Witness ==
    /\ Terminated("venc")
    /\ refused = 1
    /\ video_frames = 1
    /\ venc_drops = 1
    /\ no_packet = 1
    /\ venc_popped = 4

\* video_capture_thread has its answer from bq_try_push and goes on.
VideoCapturePushed == rs["vcap"] = "no" /\ pc["vcap"] = "push" /\ pc'["vcap"] # "push"

\* C20: VideoCapture never waits on Q_raw.  Whatever the encoder and the
\* H264 sink do, bq_try_push answers at once; a frame is either accepted or,
\* when Q_raw is full, dropped with drop_count += 1, and the loop continues.
C20_CaptureNeverWaits ==
    /\ [](/\ call["vcap"].st \notin {"wait", "woken"}
          /\ \A qid \in QueueIds : "vcap" \notin queues[qid].not_full \cup queues[qid].not_empty
          /\ At("vcap", "call_push") => ENABLED video_capture_push
          /\ At("vcap", "push") => call["vcap"].st = "ret" /\ call["vcap"].op = "try_push")
    /\ [][Moves("vcap", "call_push", "push") =>
             /\ call'["vcap"].st = "ret"
             /\ call'["vcap"].ret = (IF queues["raw"].closed # 0 THEN -1
                                     ELSE IF queues["raw"].size = queues["raw"].capacity
                                     THEN 1 ELSE 0)
             /\ call'["vcap"].ret = 1 => queues'["raw"] = queues["raw"]]_vars
    /\ [][VideoCapturePushed =>
             /\ call["vcap"].ret = 1 =>
                   drop_count' = drop_count + 1 /\ pc'["vcap"] = "loop"
                   /\ hold'["vcap"] = NULL
             /\ call["vcap"].ret = 0 =>
                   drop_count' = drop_count /\ pc'["vcap"] = "loop"
             /\ call["vcap"].ret < 0 =>
                   drop_count' = drop_count /\ pc'["vcap"] = "done"]_vars

\* The H264 sink has not taken the first packet, the encoder is parked in
\* bq_push on the full Q_h264 with the second, Q_raw is full with the third
\* frame, and VideoCapture has dropped the fourth and is back in its loop.
C20_Witness ==
    /\ g_stop = 0
    /\ call["venc"].st = "wait" /\ call["venc"].q = "h264"
    /\ queues["h264"].size = queues["h264"].capacity
    /\ queues["raw"].size = queues["raw"].capacity
    /\ At("vcap", "loop")
    /\ hold["vcap"] = NULL
    /\ nextItem = 5
    /\ drop_count = 1
    /\ venc_drops = 0

(***************************************************************************)
(* Specification SeqSpec: the sequence check of video_capture_thread, one  *)
(* v4l2_capture_dqbuf after the other, on sequence numbers from every part *)
(* of the range of a uint32_t.  Nothing else moves.                        *)
(***************************************************************************)
Half == 65536

One32 == <<0, 1>>

Max32 == <<Half - 1, Half - 1>>

\* cap.last_sequence after a successful dequeue.
SeqValues ==
    { Zero32, One32, <<0, 2>>, <<0, 5>>, <<0, 6>>, <<0, 9>>, <<0, Half - 1>>,
      <<1, 0>>, <<Half \div 2, 0>>, <<Half - 1, Half - 2>>, Max32 }

\* a + b, a - b and a > b on uint32_t: the sum and the difference wrap.
U32Add(a, b) ==
    LET lo == a[2] + b[2]
    IN  <<(a[1] + b[1] + lo \div Half) % Half, lo % Half>>

U32Sub(a, b) ==
    LET lo == a[2] - b[2]
        borrow == IF lo < 0 THEN 1 ELSE 0
    IN  <<(a[1] - b[1] - borrow + Half) % Half, (lo + Half) % Half>>

U32Gt(a, b) == a[1] > b[1] \/ (a[1] = b[1] /\ a[2] > b[2])

DriverLossOffByOne(last, cur) ==
    IF U32Gt(cur, last) THEN U32Sub(cur, last) ELSE Zero32

\* if (cur > last_seq + 1) av_stats_add_drop(&g_stats, (uint64_t)(cur - last_seq - 1));
\* the n added to drop_count, zero if the call is not made.
DriverLoss(last, cur) ==
    IF U32Gt(cur, U32Add(last, One32))
    THEN U32Sub(U32Sub(cur, last), One32)
    ELSE Zero32

\* ret == 1: nothing to dequeue; usleep, continue.
dqbuf_again ==
    /\ dq_ret' = 1
    /\ drop_added' = Zero32
    /\ UNCHANGED <<has_seq, last_seq, prev_seq>>

\* ret != 0: av_stats_add_drop(&g_stats, 1); usleep, continue.
dqbuf_failed ==
    /\ dq_ret' = -1
    /\ drop_added' = One32
    /\ UNCHANGED <<has_seq, last_seq, prev_seq>>

\* ret == 0: the first frame sets the baseline, a later one is compared.
dqbuf_frame ==
    \E cur \in SeqValues :
        /\ dq_ret' = 0
        /\ has_seq' = 1
        /\ last_seq' = cur
        /\ prev_seq' = IF has_seq = 0 THEN NoSeq ELSE last_seq
        /\ drop_added' = IF has_seq = 0 THEN Zero32 ELSE DriverLoss(last_seq, cur)

SeqInit == PipeInit /\ duration_sec = 0

SeqFrozen ==
    UNCHANGED <<queues, call, pc, g_stop, nextItem, accepted, delivered,
                poppedAtClose, rs, left, duration_sec, sigPending, sigKill,
                stopWins, closeLog, stopLost, hold, events,
                startVars, feedVars, ptsVars, statVars, auxVars>>

SeqNext ==
    \/ dqbuf_again /\ SeqFrozen
    \/ dqbuf_failed /\ SeqFrozen
    \/ dqbuf_frame /\ SeqFrozen

SeqSpec == SeqInit /\ [][SeqNext]_vars

(***************************************************************************)
(* Properties of the sequence check                                        *)
(***************************************************************************)
\* The integer a pair stands for, for the pairs below 2^31.
Val(a) == a[1] * Half + a[2]

Small(a) == a[1] < Half \div 2

\* a + 1 and a - b on the integers, without wrapping (a >= b).
ZSucc(a) == IF a[2] = Half - 1 THEN <<a[1] + 1, 0>> ELSE <<a[1], a[2] + 1>>

ZMinus(a, b) ==
    IF a[2] >= b[2] THEN <<a[1] - b[1], a[2] - b[2]>>
    ELSE <<a[1] - b[1] - 1, a[2] + Half - b[2]>>

\* The last dequeue gave a frame, and it was not the first one.
Compared == dq_ret = 0 /\ prev_seq # NoSeq

\* C19 as stated: for two consecutive successful dequeues with sequence
\* numbers prev and cur, drop_count is increased by cur - prev - 1 when
\* cur > prev + 1 and by 0 otherwise; the first successful dequeue only
\* records the baseline and adds nothing.
C19_DriverLoss ==
    /\ dq_ret = 0 /\ prev_seq = NoSeq => drop_added = Zero32
    /\ Compared =>
          drop_added = IF U32Gt(last_seq, ZSucc(prev_seq))
                       THEN ZMinus(last_seq, ZSucc(prev_seq))
                       ELSE Zero32

\* C19, amended: the comparison and the difference are made on uint32_t.
\* For prev < 2^32 - 1 the increase is cur - prev - 1 when cur > prev + 1 and
\* 0 otherwise (5 to 9 adds 3; a sequence that stands still or goes back adds
\* 0).  For prev = 2^32 - 1, prev + 1 wraps to 0 and the increase is cur: the
\* cur numbers 0 .. cur - 1 that the wrapped sequence skipped.  The first
\* successful dequeue records the baseline and adds nothing.
C19_DriverLossWrapping ==
    /\ dq_ret = 0 => has_seq = 1
    /\ dq_ret = 0 /\ prev_seq = NoSeq => drop_added = Zero32
    /\ Compared /\ prev_seq # Max32 =>
          drop_added = IF U32Gt(last_seq, ZSucc(prev_seq))
                       THEN ZMinus(last_seq, ZSucc(prev_seq))
                       ELSE Zero32
    /\ Compared /\ prev_seq = Max32 => drop_added = last_seq
    /\ Compared /\ Small(prev_seq) /\ Small(last_seq) =>
          /\ Small(drop_added)
          /\ Val(drop_added) = IF Val(last_seq) > Val(prev_seq) + 1
                               THEN Val(last_seq) - Val(prev_seq) - 1
                               ELSE 0

\* The sequence went from 5 to 9 between two successful dequeues: 3 is added.
C19_Witness ==
    /\ Compared
    /\ prev_seq = <<0, 5>>
    /\ last_seq = <<0, 9>>
    /\ drop_added = <<0, 3>>

(***************************************************************************)
(* Properties of the stages                                                *)
(***************************************************************************)
\* audio_capture_thread and video_encode_thread: the stages that call bq_push.
BlockingProducers == {"acap", "venc"}

\* The bq_push of t returns in this step.
PushReturns(t) == call[t].st # "ret" /\ call'[t].st = "ret" /\ call'[t].op = "push"

\* C21: blocking producers are lossless.  AudioCapture and VideoEncode never
\* discard a constructed chunk or packet because the output queue is full: on
\* a full queue bq_push parks with the item, a push that returns 0 has
\* appended the item, and a push returns non-zero only on a closed queue,
\* after which the stage releases the item and leaves its loop.
C21_BlockingProducersLossless ==
    /\ [](\A t \in BlockingProducers :
            /\ call[t].op = "push" /\ call[t].st \in {"wait", "woken"} =>
                  call[t].item = hold[t] /\ hold[t] # NULL
            /\ pc[t] = "push" /\ call[t].st = "ret" =>
                  /\ call[t].ret \in {0, -1}
                  /\ call[t].ret = -1 => queues[OutputQueue(t)].closed # 0)
    /\ [][\A t \in BlockingProducers :
             LET q == queues[OutputQueue(t)]
             IN  /\ PushReturns(t) /\ call'[t].ret = 0 =>
                       /\ q.size < q.capacity /\ q.closed = 0
                       /\ Contents(queues'[OutputQueue(t)]) = Append(Contents(q), hold[t])
                 /\ PushReturns(t) /\ call'[t].ret # 0 =>
                       /\ q.closed # 0
                       /\ Contents(queues'[OutputQueue(t)]) = Contents(q)
                 /\ Moves(t, "call_push", "push") /\ q.size = q.capacity /\ q.closed = 0 =>
                       call'[t].st = "wait" /\ hold'[t] = hold[t]
                 /\ Moves(t, "push", "loop") => call[t].ret = 0
                 /\ Moves(t, "push", "done") => call[t].ret = -1]_vars

\* AudioCapture found Q_pcm full, waited, and its chunk is now in the queue.
C21_Witness ==
    /\ pc["acap"] = "push"
    /\ call["acap"].st = "ret" /\ call["acap"].ret = 0 /\ call["acap"].waited
    /\ queues["aud"].size = 1
    /\ Contents(queues["aud"])[1] = hold["acap"]

(***************************************************************************)
(* Specification ResSpec: the pipeline with what its stages own.  Every    *)
(* free of a frame, packet or chunk, every requeue of a driver buffer and  *)
(* every fwrite of a sink is recorded, and g_stats.audio_chunks is         *)
(* followed as a total (what av_stats_tick_print takes out of it is left   *)
(* in).                                                                    *)
(***************************************************************************)
\* The driver buffers video_capture_thread dequeues in a run.
MaxBufs == 3

\* The number of times the object x of the kind was freed.
Freed(kind, x) == IF x \in DOMAIN frees[kind] THEN frees[kind][x] ELSE 0

\* free_video_frame, free_encoded_packet, free_audio_chunk.
Free(kind, x) == [frees EXCEPT ![kind] = (x :> Freed(kind, x) + 1) @@ frees[kind]]

video_capture_requeue_no_break(pr) == IF pr < 0 THEN 2 ELSE 1

\* The v4l2_capture_qbuf calls video_capture_thread makes once bq_try_push
\* has returned pr: the one before the break, or the one that ends the
\* iteration.
video_capture_requeue(pr) == IF pr < 0 THEN 1 ELSE 1

\* video_capture_thread: a buffer is dequeued and copied into a frame; or the
\* copy cannot be allocated and the buffer is requeued at once; after
\* bq_try_push a frame that was not taken is freed and the buffer requeued.
video_capture_own ==
    IF Moves("vcap", "loop", "call_push")
    THEN qbufs' = Append(qbufs, 0) /\ UNCHANGED <<frees, sink_file, audio_chunks>>
    ELSE IF At("vcap", "loop") /\ pc'["vcap"] = "loop" /\ ~should_stop
    THEN /\ \/ UNCHANGED qbufs
            \/ Len(qbufs) < MaxBufs /\ qbufs' = Append(qbufs, 1)
         /\ UNCHANGED <<frees, sink_file, audio_chunks>>
    ELSE IF At("vcap", "push") /\ pc'["vcap"] # "push"
    THEN /\ frees' = IF call["vcap"].ret # 0 THEN Free("vf", hold["vcap"]) ELSE frees
         /\ qbufs' = [qbufs EXCEPT ![Len(qbufs)] =
                          @ + video_capture_requeue(call["vcap"].ret)]
         /\ UNCHANGED <<sink_file, audio_chunks>>
    ELSE UNCHANGED <<resVars, audio_chunks>>

\* audio_capture_thread: pr != 0, free_audio_chunk(chunk).
audio_capture_own ==
    IF At("acap", "push") /\ pc'["acap"] # "push" /\ call["acap"].ret # 0
    THEN frees' = Free("ac", hold["acap"]) /\ UNCHANGED <<qbufs, sink_file, audio_chunks>>
    ELSE UNCHANGED <<resVars, audio_chunks>>

\* video_encode_thread: free_video_frame(vf) when there is nothing to push
\* and after a push that was taken; free_encoded_packet(ep) alone before the
\* break.
video_encode_own ==
    IF Moves("venc", "pop", "loop")
    THEN frees' = Free("vf", call["venc"].out) /\ UNCHANGED <<qbufs, sink_file, audio_chunks>>
    ELSE IF Moves("venc", "push", "loop")
    THEN frees' = Free("vf", hold["venc"]) /\ UNCHANGED <<qbufs, sink_file, audio_chunks>>
    ELSE IF Moves("venc", "push", "done")
    THEN frees' = Free("ep", hold["venc"]) /\ UNCHANGED <<qbufs, sink_file, audio_chunks>>
    ELSE UNCHANGED <<resVars, audio_chunks>>

\* What a sink frees: packets or chunks.
SinkKind(t) == IF t = "h264sink" THEN "ep" ELSE "ac"

\* av_stats_inc_audio_chunk(&g_stats) in pcm_sink_thread, once per iteration
\* that popped a chunk.
pcm_sink_count(t) == IF t = "pcmsink" THEN audio_chunks + 1 ELSE audio_chunks

\* h264_sink_thread, pcm_sink_thread: fopen; fwrite writes all of the item
\* or less; after it (and after request_stop() if less was written) the
\* chunk is counted and the item freed, which for a partial write is here
\* part of the step that makes the next loop test; fclose after the loop.
sink_own(t) ==
    IF Moves(t, "open", "loop")
    THEN sink_file' = [sink_file EXCEPT ![t].open = TRUE]
         /\ UNCHANGED <<frees, qbufs, audio_chunks>>
    ELSE IF Moves(t, "pop", "loop")
    THEN /\ sink_file' = [sink_file EXCEPT ![t].ok = @ + 1]
         /\ audio_chunks' = pcm_sink_count(t)
         /\ frees' = Free(SinkKind(t), call[t].out)
         /\ UNCHANGED qbufs
    ELSE IF Moves(t, "pop", "write_failed")
    THEN sink_file' = [sink_file EXCEPT ![t].partial = @ + 1, ![t].item = call[t].out]
         /\ UNCHANGED <<frees, qbufs, audio_chunks>>
    ELSE IF At(t, "loop") /\ pc'[t] # "loop" /\ sink_file[t].item # NULL
    THEN /\ sink_file' = [sink_file EXCEPT ![t].item = NULL,
                                           ![t].open = (pc'[t] # "done")]
         /\ audio_chunks' = pcm_sink_count(t)
         /\ frees' = Free(SinkKind(t), sink_file[t].item)
         /\ UNCHANGED qbufs
    ELSE IF rs[t] = "no" /\ pc[t] \in {"loop", "pop"} /\ pc'[t] = "done"
    THEN sink_file' = [sink_file EXCEPT ![t].open = FALSE]
         /\ UNCHANGED <<frees, qbufs, audio_chunks>>
    ELSE UNCHANGED <<resVars, audio_chunks>>

\* What a step of thread t does to what the stages own.
StageOwn(t) ==
    IF t = "vcap" THEN video_capture_own
    ELSE IF t = "acap" THEN audio_capture_own
    ELSE IF t = "venc" THEN video_encode_own
    ELSE IF t \in Sinks THEN sink_own(t)
    ELSE UNCHANGED <<resVars, audio_chunks>>

ResLayer(t) ==
    StageOwn(t)
        /\ UNCHANGED <<enc_bytes, tick_read, added, sleeps, chunkVars, gaugeVars>>

\* No timer runs (--sec 0): a signal, a device that does not open or a
\* partial write stops the run.  The frames popped from the raw queue are
\* recorded.
ResInit ==
    /\ queues = [qid \in QueueIds |-> bq_init(PipeCap)]
    /\ call = [t \in Threads |-> IdleCall]
    /\ pc = [t \in Threads |-> IF t = "main" THEN "create" ELSE "unborn"]
    /\ g_stop = 0
    /\ nextItem = 1
    /\ accepted = << >>
    /\ delivered = [raw |-> << >>]
    /\ poppedAtClose = << >>
    /\ rs = [t \in Threads |-> "no"]
    /\ left = 0
    /\ duration_sec = 0
    /\ sigPending = FALSE
    /\ sigKill = FALSE
    /\ stopWins = 0
    /\ closeLog = <<>>
    /\ stopLost = FALSE
    /\ hold = [t \in Threads |-> NULL]
    /\ events = 0
    /\ LayerIdle

ResNext ==
    \/ \E t \in Runnable :
          ThreadStep(t) /\ ResLayer(t)
              /\ UNCHANGED <<startVars, feedVars, ptsVars, statVars, seqVars>>
    \/ \E t \in Threads : SpuriousWakeup(t) /\ Quiet
    \/ ExternalSignal /\ Quiet /\ UNCHANGED layerVars

ResSpec == ResInit /\ [][ResNext]_vars

(***************************************************************************)
(* Properties of what the stages own and count                             *)
(***************************************************************************)
\* C22: pcm_sink_thread increments audio_chunks once for every chunk it
\* wrote completely and for no other chunk: the counter (as a total) is the
\* number of complete writes.
C22_CountsCompleteWrites == audio_chunks = sink_file["pcmsink"].ok

\* C23: after a partial write a sink calls request_stop (the flag is set, and
\* the three queues are closed by this call if it is the first), frees the
\* item it popped exactly once, pops nothing more, and leaves through the
\* loop test with its file closed.
C23_PartialWriteStops ==
    /\ [](\A t \in Sinks :
            LET f == sink_file[t]
            IN  /\ f.partial <= 1
                /\ f.partial = 1 => pc[t] \in {"write_failed", "loop", "done"}
                /\ f.item # NULL => /\ f.partial = 1 /\ f.open
                                    /\ Freed(SinkKind(t), f.item) = 0
                /\ f.item # NULL /\ At(t, "loop") =>
                      /\ g_stop = 1
                      /\ ~stopLost => \A qid \in QueueIds : queues[qid].closed # 0
                /\ Terminated(t) => ~f.open /\ f.item = NULL
                /\ \A x \in DOMAIN frees[SinkKind(t)] : frees[SinkKind(t)][x] = 1)
    /\ [][\A t \in Sinks :
            /\ Moves(t, "write_failed", "loop") =>
                  /\ g_stop' = 1
                  /\ g_stop = 0 => rs'[t] = "raw"
                  /\ sink_file'[t].item = sink_file[t].item
            /\ sink_file[t].item # NULL /\ sink_file'[t].item = NULL =>
                  /\ sink_file[t].item \in DOMAIN frees'[SinkKind(t)]
                  /\ frees'[SinkKind(t)][sink_file[t].item] = 1
                  /\ pc'[t] = "done"
                  /\ ~sink_file'[t].open]_vars

C23_Witness ==
    /\ Terminated("h264sink")
    /\ sink_file["h264sink"].partial = 1
    /\ sink_file["h264sink"].ok = 1
    /\ ~sink_file["h264sink"].open
    /\ closeLog = <<"raw", "h264", "aud">>
    /\ \A x \in {1, 2} : Freed("ep", x) = 1

\* video_encode_thread is in the iteration that popped the frame x.
Encoding(x) ==
    /\ pc["venc"] \in {"pop", "call_push", "push"}
    /\ call["venc"].out = x \/ hold["venc"] = x

\* C28: every frame video_encode_thread has popped from the raw queue is
\* freed exactly once by the end of the iteration that popped it, whichever
\* way the iteration ends: not yet freed while the iteration runs, freed
\* once ever after.
C28_FramesFreedOnce ==
    \A i \in 1..Len(delivered["raw"]) :
        LET x == delivered["raw"][i]
        IN  Freed("vf", x) = IF Encoding(x) THEN 0 ELSE 1

\* C29: every driver buffer video_capture_thread has dequeued is requeued
\* exactly once before the next dequeue and before the device is closed: only
\* the buffer of the iteration under way is out, and every other one was
\* given back once, whether the copy could not be allocated or bq_try_push
\* returned 0, 1 or -1.
C29_BuffersRequeuedOnce ==
    \A i \in 1..Len(qbufs) :
        qbufs[i] = IF i = Len(qbufs) /\ pc["vcap"] \in {"call_push", "push"}
                   THEN 0 ELSE 1

C29_Witness ==
    /\ Terminated("vcap")
    /\ qbufs = <<1, 1, 1>>
    /\ Len(delivered["raw"]) = 1
    /\ \E x \in DOMAIN frees["vf"] : x # delivered["raw"][1]

(***************************************************************************)
(* Specification TimerSpec: the pipeline with no data from the devices and *)
(* --sec 0 to TimerSec, with the sleeps of timer_thread counted.  One      *)
(* signal or failed open per run is the other source of a stop.            *)
(***************************************************************************)
TimerSec == 3

\* sleep(1); left--;
TimerLayer ==
    /\ sleeps' = IF At("timer", "loop") /\ left' = left - 1 THEN sleeps + 1 ELSE sleeps
    /\ UNCHANGED <<resVars, tickVars, chunkVars, gaugeVars>>

TimerInit ==
    /\ queues = [qid \in QueueIds |-> bq_init(PipeCap)]
    /\ call = [t \in Threads |-> IdleCall]
    /\ pc = [t \in Threads |-> IF t = "main" THEN "create" ELSE "unborn"]
    /\ g_stop = 0
    /\ nextItem = 1
    /\ accepted = << >>
    /\ delivered = << >>
    /\ poppedAtClose = << >>
    /\ rs = [t \in Threads |-> "no"]
    /\ left = 0
    /\ duration_sec \in 0..TimerSec
    /\ sigPending = FALSE
    /\ sigKill = FALSE
    /\ stopWins = 0
    /\ closeLog = <<>>
    /\ stopLost = FALSE
    /\ hold = [t \in Threads |-> NULL]
    /\ events = 0
    /\ StartIdle
    /\ feeds = {}
    /\ lastItem = 0
    /\ PtsIdle
    /\ StatIdle
    /\ SeqIdle
    /\ AuxIdle

TimerStep(t) ==
    ThreadStep(t) /\ TimerLayer
        /\ UNCHANGED <<startVars, feedVars, ptsVars, statVars, seqVars>>

TimerNext ==
    \/ \E t \in Runnable : TimerStep(t)
    \/ \E t \in Threads : SpuriousWakeup(t) /\ Quiet
    \/ ExternalSignal /\ Quiet /\ UNCHANGED layerVars

TimerSpec == TimerInit /\ [][TimerNext]_vars

\* The kernel runs every runnable thread.
FairTimerSpec == TimerSpec /\ \A t \in Threads : WF_vars(TimerStep(t))

(***************************************************************************)
(* Properties of the control threads                                       *)
(***************************************************************************)
\* C24: timer_thread calls request_stop only after exactly duration_sec
\* sleeps, and does call it if nothing else stops the run (no signal, no
\* failure); once the flag is set it starts no further sleep, and when its
\* own tests find the flag set it returns without calling request_stop, so
\* without closing a queue; with duration_sec = 0 there is no timer thread,
\* no sleep and no stop requested by it.
C24_TimerStops ==
    /\ [](/\ sleeps <= duration_sec
          /\ sleeps + left = (IF pc["timer"] = "unborn" THEN 0 ELSE duration_sec)
          /\ At("timer", "stop") \/ rs["timer"] # "no" => sleeps = duration_sec
          /\ duration_sec = 0 => pc["timer"] = "unborn" /\ rs["timer"] = "no")
    /\ [][/\ g_stop = 1 => sleeps' = sleeps
          /\ g_stop = 1 /\ rs["timer"] = "no" /\ pc["timer"] \in {"loop", "check"}
                /\ pc'["timer"] # pc["timer"] =>
                   /\ rs'["timer"] = "no"
                   /\ pc'["timer"] = (IF pc["timer"] = "loop" THEN "check" ELSE "done")
          /\ Moves("timer", "stop", "done") =>
                g_stop' = 1 /\ (g_stop = 0 => rs'["timer"] = "raw")]_vars
    /\ <>(\/ duration_sec = 0
          \/ events # 0
          \/ /\ Terminated("timer")
             /\ sleeps = duration_sec
             /\ closeLog = <<"raw", "h264", "aud">>)

C24_Witness ==
    /\ duration_sec = TimerSec
    /\ events = 0
    /\ Terminated("timer")
    /\ sleeps = TimerSec
    /\ stopWins = 1
    /\ closeLog = <<"raw", "h264", "aud">>

(***************************************************************************)
(* Specification TickSpec: g_stats alone.  The workers add to the four     *)
(* counters with atomic_fetch_add while stats_thread is anywhere in        *)
(* av_stats_tick_print, which takes the counters one after the other with  *)
(* atomic_exchange(.., 0).  What is added and what is read are summed as   *)
(* history.  The counters are uint64_t and stay far from 2^64 here.        *)
(***************************************************************************)
\* The most that is added to one counter in a run.
MaxAdded == 3

\* pkt_size of the packets, and the n of av_stats_add_drop.
PktSizes == {1, 2}

DropCounts == {1, 2}

\* The order of the four exchanges in av_stats_tick_print.
TickOrder == <<"video_frames", "enc_bytes", "audio_chunks", "drop_count">>

\* stats_thread's position: before the exchange of TickOrder[i].
TickPc(i) == IF i = 1 THEN "loop" ELSE TickOrder[i]

Cur(c) ==
    CASE c = "video_frames" -> video_frames
      [] c = "enc_bytes"    -> enc_bytes
      [] c = "audio_chunks" -> audio_chunks
      [] OTHER              -> drop_count

\* The counter c becomes v.
Store(c, v) ==
    /\ video_frames' = IF c = "video_frames" THEN v ELSE video_frames
    /\ enc_bytes' = IF c = "enc_bytes" THEN v ELSE enc_bytes
    /\ audio_chunks' = IF c = "audio_chunks" THEN v ELSE audio_chunks
    /\ drop_count' = IF c = "drop_count" THEN v ELSE drop_count

\* atomic_fetch_add_explicit(&s->c, n, memory_order_relaxed)
atomic_fetch_add(c, n) ==
    /\ added[c] + n <= MaxAdded
    /\ Store(c, Cur(c) + n)
    /\ added' = [added EXCEPT ![c] = @ + n]
    /\ UNCHANGED <<pc, tick_read>>

av_stats_inc_video_frame == atomic_fetch_add("video_frames", 1)

av_stats_add_enc_bytes == \E bytes \in PktSizes : atomic_fetch_add("enc_bytes", bytes)

av_stats_inc_audio_chunk == atomic_fetch_add("audio_chunks", 1)

av_stats_add_drop_n == \E n \in DropCounts : atomic_fetch_add("drop_count", n)

LoadThenStore(cur) == 0..cur

\* What atomic_exchange returns when the counter holds cur.
Exchanged(cur) == {cur}

\* The next of the four atomic_exchange(&s->c, 0) of av_stats_tick_print.
av_stats_tick_print ==
    \E i \in 1..Len(TickOrder) :
        /\ pc["stat"] = TickPc(i)
        /\ \E v \in Exchanged(Cur(TickOrder[i])) :
              tick_read' = [tick_read EXCEPT ![TickOrder[i]] = @ + v]
        /\ Store(TickOrder[i], 0)
        /\ pc' = [pc EXCEPT !["stat"] = TickPc((i % Len(TickOrder)) + 1)]
        /\ UNCHANGED added

TickInit ==
    /\ queues = [qid \in QueueIds |-> bq_init(PipeCap)]
    /\ call = [t \in Threads |-> IdleCall]
    /\ pc = [t \in Threads |-> IF t = "stat" THEN "loop" ELSE "open"]
    /\ g_stop = 0
    /\ nextItem = 1
    /\ accepted = << >>
    /\ delivered = << >>
    /\ poppedAtClose = << >>
    /\ rs = [t \in Threads |-> "no"]
    /\ left = 0
    /\ duration_sec = 0
    /\ sigPending = FALSE
    /\ sigKill = FALSE
    /\ stopWins = 0
    /\ closeLog = <<>>
    /\ stopLost = FALSE
    /\ hold = [t \in Threads |-> NULL]
    /\ events = 0
    /\ LayerIdle

TickFrozen ==
    UNCHANGED <<queues, call, g_stop, nextItem, accepted, delivered,
                poppedAtClose, rs, left, duration_sec, sigPending, sigKill,
                stopWins, closeLog, stopLost, hold, events,
                startVars, feedVars, ptsVars, seqVars, resVars, sleeps,
                chunkVars, gaugeVars, venc_drops, venc_popped, no_packet, refused>>

TickNext ==
    \/ av_stats_inc_video_frame /\ TickFrozen
    \/ av_stats_add_enc_bytes /\ TickFrozen
    \/ av_stats_inc_audio_chunk /\ TickFrozen
    \/ av_stats_add_drop_n /\ TickFrozen
    \/ av_stats_tick_print /\ TickFrozen

TickSpec == TickInit /\ [][TickNext]_vars

\* C25: for each of the four counters, whatever the interleaving of the
\* additions with the exchanges of av_stats_tick_print, the values the ticks
\* have read plus the value the counter holds add up to everything added.
C25_NothingLost == \A c \in StatNames : tick_read[c] + Cur(c) = added[c]

C25_Witness ==
    /\ pc["stat"] = "audio_chunks"
    /\ \A c \in StatNames : tick_read[c] > 0 /\ Cur(c) > 0 /\ added[c] = MaxAdded

(***************************************************************************)
(* Specification UntimedSpec: the pipeline run with --sec 0, where a       *)
(* signal, a failed open or a partial write is what stops it.              *)
(***************************************************************************)
UntimedInit == PipeInit /\ duration_sec = 0

UntimedSpec == UntimedInit /\ [][PipeNext]_vars

\* The kernel runs every runnable thread.
FairUntimedSpec ==
    UntimedSpec /\ \A t \in Threads :
        WF_vars(ThreadStep(t) /\ UNCHANGED layerVars)

\* C26: a stage whose device, encoder or file does not open calls
\* request_stop and returns without entering its loop, and then every
\* worker that was started terminates.
C26_OpenFailureStopsAll ==
    /\ [][\A t \in Stages :
            pc[t] = "open_failed" /\ pc'[t] # "open_failed" =>
               /\ pc'[t] = "done"
               /\ g_stop' = 1
               /\ g_stop = 0 => rs'[t] = "raw"]_vars
    /\ (\E t \in Stages : pc[t] = "open_failed") ~>
          (\A w \in Workers : Started(w) => Terminated(w))

C26_Witness ==
    /\ pc["vcap"] = "done" /\ rs["vcap"] = "aud"
    /\ closeLog = <<"raw", "h264">>
    /\ call["pcmsink"].st = "wait"
    /\ Terminated("venc")

\* C27: signal_thread returns from sigwait only with an INT or TERM, the
\* first it receives, and then calls request_stop; and whenever main() is at
\* its pthread_kill, the signal thread returns and main() gets past the join
\* of it, whether the thread was still in sigwait or had returned before.
C27_SignalThreadJoins ==
    /\ [][pc["sig"] = "sigwait" /\ pc'["sig"] # "sigwait" =>
            /\ sigPending \/ sigKill
            /\ pc'["sig"] = "done"
            /\ g_stop' = 1
            /\ g_stop = 0 => rs'["sig"] = "raw"]_vars
    /\ pc["main"] = "kill" ~>
          (Terminated("sig") /\ pc["main"] \notin {"kill", "j_sig"})

\* The signal thread was in sigwait until main() woke it.
C27_Witness ==
    /\ Terminated("sig")
    /\ ~sigKill /\ ~sigPending
    /\ events = 1
    /\ pc["main"] = "d_raw"

(***************************************************************************)
(* Properties of the encoded packets                                       *)
(***************************************************************************)
\* The sequence s is t with some elements left out.
RECURSIVE IsSubSeq(_, _)
IsSubSeq(s, t) ==
    IF s = << >> THEN TRUE
    ELSE IF t = << >> THEN FALSE
    ELSE IF Head(s) = Head(t) THEN IsSubSeq(Tail(s), Tail(t))
    ELSE IsSubSeq(s, Tail(t))

\* C30: every packet video_encode_thread hands to bq_push, and so every
\* packet the h264 queue accepts, carries the pts_us of the frame it was
\* encoded from; and the packets enter the h264 queue in the order in which
\* their frames were popped from the raw queue.
C30_PacketsInheritPts ==
    /\ pc["venc"] \in {"call_push", "push"} =>
          ep_pts_us[hold["venc"]] = pts_us[hold["venc"]]
    /\ \A i \in 1..Len(accepted["h264"]) :
          ep_pts_us[accepted["h264"][i]] = pts_us[accepted["h264"][i]]
    /\ IsSubSeq(accepted["h264"], delivered["raw"])

C30_Witness ==
    /\ accepted["h264"] = <<1, 2>>
    /\ ep_pts_us[1] = 0
    /\ ep_pts_us[2] = 1

(***************************************************************************)
(* Specification EncSpec: the video path with both the counters and what   *)
(* the stages own followed, and enc_bytes with them.  The encoder may fail *)
(* on a frame or give no packet for it; the devices do not fail and the    *)
(* timer ends the run.  What the raw queue delivers and the h264 queue     *)
(* accepts is recorded.                                                    *)
(***************************************************************************)
EncItems == 2

\* av_stats_add_enc_bytes(&g_stats, (uint64_t)pkt_size) after a bq_push that
\* returned 0.
video_encode_count_bytes ==
    IF Moves("venc", "push", "loop")
    THEN \E pkt_size \in PktSizes : enc_bytes' = enc_bytes + pkt_size
    ELSE UNCHANGED enc_bytes

EncInit ==
    /\ queues = [qid \in QueueIds |-> bq_init(PipeCap)]
    /\ call = [t \in Threads |-> IdleCall]
    /\ pc = [t \in Threads |-> IF t = "main" THEN "create" ELSE "unborn"]
    /\ g_stop = 0
    /\ nextItem = 1
    /\ accepted = [h264 |-> << >>]
    /\ delivered = [raw |-> << >>]
    /\ poppedAtClose = << >>
    /\ rs = [t \in Threads |-> "no"]
    /\ left = 0
    /\ duration_sec = 1
    /\ sigPending = FALSE
    /\ sigKill = FALSE
    /\ stopWins = 0
    /\ closeLog = <<>>
    /\ stopLost = FALSE
    /\ hold = [t \in Threads |-> NULL]
    /\ events = MaxEvents
    /\ StartIdle
    /\ feeds = {"vcap"}
    /\ lastItem = EncItems
    /\ PtsIdle
    /\ StatIdle
    /\ SeqIdle
    /\ AuxIdle

EncNext ==
    \/ \E t \in Runnable :
          ThreadStep(t) /\ StatLayer /\ StageOwn(t) /\ video_encode_count_bytes
              /\ UNCHANGED <<startVars, feedVars, ptsVars, seqVars,
                             tick_read, added, sleeps, chunkVars, gaugeVars>>
    \/ \E t \in Threads : SpuriousWakeup(t) /\ Quiet

EncSpec == EncInit /\ [][EncNext]_vars

(***************************************************************************)
(* Properties of video_encode_thread's iterations                          *)
(***************************************************************************)
\* The step of video_encode_thread that ends an iteration without a push
\* frees the frame it popped, once, returns to the loop test, and neither
\* touches the h264 queue nor requests a stop.
EndsUnpushed ==
    /\ pc'["venc"] = "loop"
    /\ Freed("vf", call["venc"].out) = 0
    /\ call["venc"].out \in DOMAIN frees'["vf"]
    /\ frees'["vf"][call["venc"].out] = 1
    /\ queues'["h264"] = queues["h264"]
    /\ accepted' = accepted
    /\ g_stop' = g_stop /\ rs' = rs

\* C31: when the encoder succeeds without a packet for a frame,
\* video_encode_thread changes none of video_frames, enc_bytes, drop_count,
\* pushes nothing to the h264 queue, frees the frame and goes on to the next
\* loop test and pop.
C31_ZeroPacketCountsNothing ==
    [][no_packet' = no_packet + 1 =>
          /\ video_frames' = video_frames
          /\ enc_bytes' = enc_bytes
          /\ drop_count' = drop_count
          /\ EndsUnpushed]_vars

\* A frame without a packet was followed by one whose packet was pushed and
\* counted.
C31_Witness ==
    /\ no_packet = 1
    /\ delivered["raw"] = <<1, 2>>
    /\ accepted["h264"] = <<2>>
    /\ video_frames = 1 /\ enc_bytes > 0 /\ drop_count = 0
    /\ Freed("vf", 1) = 1

\* C32: a failed encode adds exactly 1 to drop_count and nothing to the
\* other counters, frees the frame, requests no stop and goes on to the next
\* loop test and pop; the frame is not encoded again (no frame is popped
\* twice, and every pop has one outcome).
C32_EncodeFailureDropsOne ==
    /\ [][venc_drops' = venc_drops + 1 =>
            /\ drop_count' = drop_count + 1
            /\ video_frames' = video_frames
            /\ enc_bytes' = enc_bytes
            /\ EndsUnpushed]_vars
    /\ [](/\ \A i, j \in 1..Len(delivered["raw"]) :
                delivered["raw"][i] = delivered["raw"][j] => i = j
          /\ venc_popped + (IF pc["venc"] = "pop" /\ call["venc"].st = "ret"
                                  /\ call["venc"].ret = 1 THEN 1 ELSE 0)
                = Len(delivered["raw"]))

\* A failed encode of the first frame was followed by the second frame
\* encoded, pushed and counted, with no stop requested in between.
C32_Witness ==
    /\ venc_drops = 1 /\ drop_count = 1
    /\ delivered["raw"] = <<1, 2>>
    /\ accepted["h264"] = <<2>>
    /\ video_frames = 1
    /\ Freed("vf", 1) = 1
    /\ g_stop = 0

(***************************************************************************)
(* Specification ChunkSpec: the AudioChunk audio_capture_thread builds     *)
(* from what audio_capture_read returns, for every channel count and every *)
(* return value up to MaxRead.  audio_capture_open fills bytes_per_frame   *)
(* with (bits / 8) x channels, S16_LE being 2 bytes.                       *)
(***************************************************************************)
MaxChannels == 4

MaxRead == 32

\* ssize_t n = audio_capture_read(&ac, buf, chunk_bytes): an error, nothing,
\* or a number of bytes.
ReadResults == -1..MaxRead

\* n <= 0: free(buf), continue.  Otherwise frames = (uint32_t)(n /
\* ac.bytes_per_frame) and the fields of the chunk are filled in.
audio_capture_chunk ==
    \E n \in ReadResults :
        chunk' = IF n <= 0 THEN chunk
                 ELSE [bytes            |-> n,
                       channels         |-> ac.channels,
                       bytes_per_sample |-> 2,
                       frames           |-> n \div ac.bytes_per_frame]

ChunkInit ==
    /\ queues = [qid \in QueueIds |-> bq_init(PipeCap)]
    /\ call = [t \in Threads |-> IdleCall]
    /\ pc = [t \in Threads |-> IF t = "acap" THEN "loop" ELSE "open"]
    /\ g_stop = 0
    /\ nextItem = 1
    /\ accepted = << >>
    /\ delivered = << >>
    /\ poppedAtClose = << >>
    /\ rs = [t \in Threads |-> "no"]
    /\ left = 0
    /\ duration_sec = 0
    /\ sigPending = FALSE
    /\ sigKill = FALSE
    /\ stopWins = 0
    /\ closeLog = <<>>
    /\ stopLost = FALSE
    /\ hold = [t \in Threads |-> NULL]
    /\ events = 0
    /\ StartIdle /\ FeedIdle /\ PtsIdle /\ StatIdle /\ SeqIdle
    /\ frees = [k \in {"vf", "ep", "ac"} |-> << >>]
    /\ qbufs = << >>
    /\ sink_file = [t \in {"h264sink", "pcmsink"} |->
                       [open |-> FALSE, item |-> NULL, ok |-> 0, partial |-> 0]]
    /\ audio_chunks = 0
    /\ enc_bytes = 0
    /\ tick_read = [c \in StatNames |-> 0]
    /\ added = [c \in StatNames |-> 0]
    /\ sleeps = 0
    /\ ac \in {[channels |-> c, bytes_per_frame |-> 2 * c] : c \in 1..MaxChannels}
    /\ chunk = [bytes |-> 0, channels |-> 0, bytes_per_sample |-> 0, frames |-> 0]
    /\ g_video_pts_delta_us = 0
    /\ last_pts = 0

ChunkNext ==
    /\ audio_capture_chunk
    /\ UNCHANGED <<queues, call, pc, g_stop, nextItem, accepted, delivered,
                   poppedAtClose, rs, left, duration_sec, sigPending, sigKill,
                   stopWins, closeLog, stopLost, hold, events,
                   startVars, feedVars, ptsVars, statVars, seqVars,
                   resVars, tickVars, sleeps, ac, gaugeVars>>

ChunkSpec == ChunkInit /\ [][ChunkNext]_vars

(***************************************************************************)
(* Properties of the audio chunks                                          *)
(***************************************************************************)
\* C33: the chunk audio_capture_thread builds, and so every chunk it pushes,
\* has bytes = frames * channels * bytes_per_sample, for every n > 0 the
\* read returns and every channel count.
C33_ChunkBytes == chunk.bytes = chunk.frames * chunk.channels * chunk.bytes_per_sample

(***************************************************************************)
(* Properties of the queue, continued                                      *)
(***************************************************************************)
\* Thread t is blocked in pthread_cond_wait inside the operation op.
Blocked(t, op) == call[t].op = op /\ call[t].st = "wait"

\* C34: a push or try_push that succeeds while consumers are blocked in
\* bq_pop takes one of them out of its wait, and a pop that succeeds while
\* producers are blocked in bq_push takes one of them out; a thread taken
\* out runs its loop test again; and with every runnable thread scheduled,
\* no consumer stays blocked while the queue stays non-empty and no producer
\* stays blocked while it stays non-full.
C34_NoLostWakeup ==
    /\ [][LET q == queues[TheQ]
          IN  /\ Len(accepted'[TheQ]) > Len(accepted[TheQ]) /\ q.not_empty # {} =>
                    \E w \in q.not_empty :
                        /\ Blocked(w, "pop")
                        /\ call'[w].st = "woken"
                        /\ w \notin queues'[TheQ].not_empty
              /\ Len(delivered'[TheQ]) > Len(delivered[TheQ]) /\ q.not_full # {} =>
                    \E w \in q.not_full :
                        /\ Blocked(w, "push")
                        /\ call'[w].st = "woken"
                        /\ w \notin queues'[TheQ].not_full]_vars
    /\ \A t \in Clients :
          /\ call[t].st = "woken" ~> call[t].st # "woken"
          /\ (Blocked(t, "pop") /\ queues[TheQ].size > 0)
                ~> ~(Blocked(t, "pop") /\ queues[TheQ].size > 0)
          /\ (Blocked(t, "push") /\ queues[TheQ].size < queues[TheQ].capacity)
                ~> ~(Blocked(t, "push") /\ queues[TheQ].size < queues[TheQ].capacity)

\* A push has just woken one of two blocked consumers: the other is still
\* blocked with an item in the queue.
C34_Witness ==
    /\ queues[TheQ].size = 1
    /\ \E t, u \in Clients :
          /\ Blocked(t, "pop") /\ t \in queues[TheQ].not_empty
          /\ call[u].op = "pop" /\ call[u].st = "woken"

(***************************************************************************)
(* Specification GaugeSpec: the PTS gauge of h264_sink_thread, for every   *)
(* sequence of up to GaugePackets packets with pts_us up to MaxPts, in any *)
(* order.  The pts_us of the packets popped are recorded in sunk.          *)
(***************************************************************************)
GaugePackets == 4

MaxPts == 3

h264_sink_gauge_unguarded ==
    \E p \in 0..MaxPts :
        /\ Len(sunk["h264sink"]) < GaugePackets
        /\ g_video_pts_delta_us' =
              IF p > last_pts THEN p - last_pts ELSE g_video_pts_delta_us
        /\ last_pts' = p
        /\ sunk' = [sunk EXCEPT !["h264sink"] = Append(@, p)]

\* if (last_pts && ep->pts_us > last_pts) atomic_store(&g_video_pts_delta_us,
\* ep->pts_us - last_pts); last_pts = ep->pts_us;
h264_sink_gauge ==
    \E p \in 0..MaxPts :
        /\ Len(sunk["h264sink"]) < GaugePackets
        /\ g_video_pts_delta_us' =
              IF last_pts # 0 /\ p > last_pts THEN p - last_pts
              ELSE g_video_pts_delta_us
        /\ last_pts' = p
        /\ sunk' = [sunk EXCEPT !["h264sink"] = Append(@, p)]

GaugeInit ==
    /\ queues = [qid \in QueueIds |-> bq_init(PipeCap)]
    /\ call = [t \in Threads |-> IdleCall]
    /\ pc = [t \in Threads |-> IF t = "h264sink" THEN "pop" ELSE "open"]
    /\ g_stop = 0
    /\ nextItem = 1
    /\ accepted = << >>
    /\ delivered = << >>
    /\ poppedAtClose = << >>
    /\ rs = [t \in Threads |-> "no"]
    /\ left = 0
    /\ duration_sec = 0
    /\ sigPending = FALSE
    /\ sigKill = FALSE
    /\ stopWins = 0
    /\ closeLog = <<>>
    /\ stopLost = FALSE
    /\ hold = [t \in Threads |-> NULL]
    /\ events = 0
    /\ LayerIdle

GaugeNext ==
    /\ h264_sink_gauge
    /\ UNCHANGED <<queues, call, pc, g_stop, nextItem, accepted, delivered,
                   poppedAtClose, rs, left, duration_sec, sigPending, sigKill,
                   stopWins, closeLog, stopLost, hold, events,
                   startVars, feedVars, statVars, seqVars,
                   resVars, tickVars, sleeps, chunkVars,
                   now, pts_us, ep_pts_us, audio_pts, sample_rate, frames_log,
                   pts_log>>

GaugeSpec == GaugeInit /\ [][GaugeNext]_vars

(***************************************************************************)
(* Properties of the PTS gauge                                             *)
(***************************************************************************)
\* Packet i + 1 of the history h updates the gauge: the one before it had a
\* pts_us that is not 0 and smaller.
Updates(h, i) == h[i] # 0 /\ h[i + 1] > h[i]

\* C35: the gauge is set to pts_us - last_pts exactly for the packets whose
\* predecessor has a smaller pts_us that is not 0, and last_pts always is
\* the pts_us of the last packet: the gauge holds the difference made by
\* the last such packet, which is positive, or 0 if there was none.
C35_GaugeIsLastPositiveDelta ==
    LET h == sunk["h264sink"]
        U == {i \in 1..(Len(h) - 1) : Updates(h, i)}
    IN  /\ last_pts = (IF h = << >> THEN 0 ELSE h[Len(h)])
        /\ U = {} => g_video_pts_delta_us = 0
        /\ U # {} =>
              LET i == CHOOSE k \in U : \A j \in U : j <= k
              IN  g_video_pts_delta_us = h[i + 1] - h[i] /\ g_video_pts_delta_us > 0

\* The gauge was set by the second packet and kept by the third and fourth,
\* one with the same pts_us, one after a pts_us of 0.
C35_Witness ==
    /\ sunk["h264sink"] = <<1, 3, 3, 0>>
    /\ g_video_pts_delta_us = 2
    /\ last_pts = 0

(***************************************************************************)
(* The structure of the ring                                               *)
(***************************************************************************)
\* C36: in every reachable state of the queue 0 <= size <= capacity,
\* head < capacity and tail = (head + size) mod capacity; no step changes
\* the capacity bq_init set, and no step takes closed from 1 back to 0.
C36_RingStructure ==
    /\ [](/\ TheQueue.size >= 0 /\ TheQueue.size <= TheQueue.capacity
          /\ TheQueue.head >= 0 /\ TheQueue.head < TheQueue.capacity
          /\ TheQueue.tail = (TheQueue.head + TheQueue.size) % TheQueue.capacity
          /\ TheQueue.capacity = QCap
          /\ TheQueue.closed \in {0, 1})
    /\ [][/\ TheQueue'.capacity = TheQueue.capacity
          /\ TheQueue.closed = 1 => TheQueue'.closed = 1]_vars

\* The ring has gone round once (head is back behind tail after a wrap), the
\* queue is closed and still holds an item, and items were popped after the
\* close.
C36_Witness ==
    /\ TheQueue.closed = 1
    /\ TheQueue.head = 1 /\ TheQueue.tail = 0 /\ TheQueue.size = 1
    /\ Len(accepted[TheQ]) = 4
    /\ Len(delivered[TheQ]) = 3
    /\ poppedAtClose[TheQ] < 3

(***************************************************************************)
(* bq_try_push on a closed queue                                           *)
(***************************************************************************)
\* C37: bq_try_push on a closed queue answers -1 whether or not the queue is
\* full, and leaves the queue as it is; video_capture_thread with that
\* answer counts no drop, leaves its loop and never calls bq_try_push again.
C37_ClosedBeforeFull ==
    /\ [][Moves("vcap", "call_push", "push") /\ queues["raw"].closed # 0 =>
             /\ call'["vcap"].st = "ret"
             /\ call'["vcap"].ret = -1
             /\ queues'["raw"] = queues["raw"]
             /\ drop_count' = drop_count]_vars
    /\ [][VideoCapturePushed /\ call["vcap"].ret = -1 =>
             drop_count' = drop_count /\ pc'["vcap"] = "done"]_vars
    /\ [][pc["vcap"] = "done" => pc'["vcap"] \notin {"loop", "call_push", "push"}]_vars

\* Q_raw was closed while full and still is full; VideoCapture has called
\* bq_try_push with a frame and holds the answer -1, having counted no drop.
C37_Witness ==
    /\ queues["raw"].closed # 0
    /\ queues["raw"].size = queues["raw"].capacity
    /\ pc["vcap"] = "push" /\ rs["vcap"] = "no"
    /\ call["vcap"].op = "try_push" /\ call["vcap"].st = "ret"
    /\ call["vcap"].ret = -1
    /\ hold["vcap"] # NULL
    /\ drop_count = 0

(***************************************************************************)
(* The return of a stage                                                   *)
(***************************************************************************)
\* C38: a stage whose thread function has returned did so after a
\* request_stop: in every reachable state where VideoCapture, VideoEncode,
\* AudioCapture, H264Sink or PcmSink has returned, g_stop is 1.
C38_ReturnedAfterStop ==
    \A t \in Stages : pc[t] = "done" => g_stop = 1

\* The two capture stages have returned on reading the flag while no queue
\* has been closed yet, and the two sinks are still in their loops.
C38_Witness ==
    /\ Terminated("vcap") /\ Terminated("acap")
    /\ g_stop = 1
    /\ closeLog = << >>
    /\ \A qid \in QueueIds : queues[qid].closed = 0
    /\ \A t \in Sinks : pc[t] \notin {"done", "unborn", "open"}

(***************************************************************************)
(* The stop flag and the closing of the queues                             *)
(***************************************************************************)
\* Every queue of the pipeline is closed.
AllClosed == \A qid \in QueueIds : queues[qid].closed # 0

\* The request_stop call of thread t returns in this step: at once when it
\* found g_stop set, after its third bq_close when it did not.
StopReturns(t) ==
    \/ g_stop # 0 /\ StopCall(t)
    \/ rs[t] # "no" /\ rs'[t] = "no"

\* Queue qid accepts an item in this step: bq_push or bq_try_push enqueues.
PushSucceeds(qid) == queues'[qid].size > queues[qid].size

SomePushSucceeds == \E qid \in QueueIds : PushSucceeds(qid)

\* C39 as stated: when a request_stop call returns, and whenever g_stop reads
\* 1 (before main() destroys the queues), the three queues are closed, and
\* no push succeeds once g_stop is 1.
C39_ClosedWhenStopSeen ==
    /\ []((g_stop # 0 /\ ~Destroying) => AllClosed)
    /\ [][\A t \in Threads : StopReturns(t) => AllClosed']_vars
    /\ [][SomePushSucceeds => g_stop = 0]_vars

\* C39, amended: the queues are all closed when the request_stop call that
\* took g_stop from 0 to 1 returns, and from then on until main() destroys
\* them; the flag is set before the first bq_close, so a queue is closed
\* only with g_stop at 1, and a push succeeds only on a queue not yet closed.
C39_ClosedWhenWinnerReturns ==
    /\ [][\A t \in Threads : (rs[t] # "no" /\ rs'[t] = "no") => AllClosed']_vars
    /\ []((g_stop # 0 /\ ~Destroying /\ \A t \in Threads : rs[t] = "no") => AllClosed)
    /\ [](\A qid \in QueueIds : queues[qid].closed # 0 => g_stop # 0)
    /\ [][\A qid \in QueueIds : PushSucceeds(qid) => queues[qid].closed = 0]_vars

\* A request_stop call that found the flag set has returned and the call
\* that set it has closed the three queues and returned; main() has not yet
\* destroyed them.
C39_Witness ==
    /\ stopLost
    /\ stopWins = 1
    /\ closeLog = CloseOrder
    /\ \A t \in Threads : rs[t] = "no"
    /\ AllClosed
    /\ ~Destroying

(***************************************************************************)
(* The sequence check across the wrap of the sequence number               *)
(***************************************************************************)
\* cur - prev on uint32_t of the last two frames: the distance d modulo 2^32.
SeqDistance == U32Sub(last_seq, prev_seq)

\* C40: for two consecutive successful dequeues whose sequence numbers
\* differ by d modulo 2^32, d >= 2 (and d below 2^31: the sequence went
\* forward), drop_count is increased by d - 1, also when prev + 1 wraps to
\* 0 and when cur has wrapped past 0.
C40_GapAcrossWrap ==
    (Compared /\ U32Gt(SeqDistance, One32) /\ Small(SeqDistance)) =>
        drop_added = U32Sub(SeqDistance, One32)

====
